---------------------------- MODULE Spec2Model ----------------------------
(***************************************************************************)
(* MSN Messenger notification server (frostbite2000/MSN-Messenger-Server). *)
(*                                                                         *)
(* The repository holds two servers that speak the protocol:               *)
(*   "async"    src/server/*.py          asyncio, one MSNPProtocolHandler  *)
(*                                       per connection + ClientManager    *)
(*   "threaded" src/msn_messenger_server.py  one thread per connection,    *)
(*                                       MSNPServer.clients table          *)
(* The state variable `server` says which of the two programs is running;  *)
(* it is chosen in Init and never changes.                                 *)
(*                                                                         *)
(* A line on the wire is modelled as the sequence of its space-separated   *)
(* tokens; the byte level (segments, readline, recv) is the second         *)
(* specification, FrameSpec.                                               *)
(***************************************************************************)
EXTENDS Integers, Sequences, FiniteSets, TLC

VARIABLES
    server,             \* "async" | "threaded": the program that is running
    \* ---- async server: src/server/protocol_handler.py, client_manager.py
    h,                  \* conn -> MSNPProtocolHandler fields (+ connection state)
    clients,            \* ClientManager.clients: client_id -> client_info
    email_to_client,    \* ClientManager.email_to_client: email -> client_id
    next_client_id,     \* ClientManager.next_client_id
    \* ---- threaded server: src/msn_messenger_server.py
    tclients,           \* MSNPServer.clients: client_id -> client_info
    client_counter,     \* MSNPServer.client_counter
    \* ---- the persistent store (sqlite), shared by the handlers
    contacts,           \* rows of the contacts table, in insertion order
    \* ---- observation of the last step
    last,               \* the event the last step processed
    wrote,              \* the lines the last step wrote, in write order
    \* ---- byte level of one connection (FrameSpec)
    sent,               \* every byte the client sends on the connection
    pending,            \* segments the client has sent that have not arrived yet
    buf,                \* bytes that arrived and were not read yet
    eof,                \* the client closed its side after the last segment
    fpc,                \* position of the connection's reader loop
    fcmd,               \* async: the MSG command whose payload is being read
    flines,             \* the messages handed to the command processor
    fpayloads,          \* the payload bodies taken for MSG commands
    fout,               \* every byte written to the connection, in order
    \* ---- bookkeeping for the ADD/REM law (StoreSpec)
    pre,                \* the contact store as it was before the last ADD
    \* ---- bookkeeping for the retry limit of the challenge (AuthSpec)
    attempts,           \* phase-2 USR lines with a non-matching hash, per connection
    \* ---- the client of tests/test_client.py (LiveSpec)
    tc,                 \* what it sent, what is in flight, what it has to read
    \* ---- the threads of the threaded server, write by write (ThreadSpec)
    threads             \* thread (= connection id) -> where its handler stands

sessVars  == <<h, clients, email_to_client, next_client_id,
               tclients, client_counter, contacts>>
obsVars   == <<last, wrote>>
frameVars == <<sent, pending, buf, eof, fpc, fcmd, flines, fpayloads, fout>>
vars      == <<server, sessVars, obsVars, frameVars, pre, attempts, tc, threads, threads>>

---------------------------------------------------------------------------
(* Bounds of the model *)

MaxConns    == 2        \* connections accepted in one run
MaxClientId == 2        \* cap on ClientManager.next_client_id - 1
MaxCuts     == 2        \* FrameSpec: cuts of the byte stream into segments

Conns == 1..MaxConns

None == "None"          \* Python's None

---------------------------------------------------------------------------
(* The user store (read-only for the core). *)

Registered == {"a@x", "b@x"}
Emails     == Registered \cup {"z@x"}          \* z@x is in no user table

password(e)   == IF e = "a@x" THEN "p" ELSE "q"
displayOf(e)  == IF e = "a@x" THEN "A" ELSE "B"

Tids   == {"1", "2"}
Nonces == {"N1", "N2"}

(* hashlib.md5(s).hexdigest(): a lower-case digest, injective on the strings
   of the model; Md5Upper is the same digest written in upper case. *)
Md5(s)      == "h(" \o s \o ")"
Md5Upper(s) == "H(" \o s \o ")"

---------------------------------------------------------------------------
(* Small helpers *)

Min(S) == CHOOSE x \in S : \A y \in S : x <= y

Range(s) == {s[i] : i \in 1..Len(s)}

Reverse(s) == [i \in 1..Len(s) |-> s[Len(s) + 1 - i]]

SeqsUpTo(S, n) == UNION {[1..k -> S] : k \in 0..n}

Digits == <<"0", "1", "2", "3", "4", "5", "6", "7", "8", "9">>

(* str(n) of a natural number *)
RECURSIVE DecStr(_)
DecStr(n) == IF n < 10 THEN Digits[n + 1]
             ELSE DecStr(n \div 10) \o Digits[(n % 10) + 1]

(* a function without one key: `del d[k]` *)
Without(f, k) == [x \in DOMAIN f \ {k} |-> f[x]]
(* a function with one key set: `d[k] = v` *)
With(f, k, v) == [x \in DOMAIN f \cup {k} |-> IF x = k THEN v ELSE f[x]]

Wr(c, line) == [to |-> c, line |-> line]

(* the lines of `w` written to connection c, in order *)
LinesTo(c, w) == LET idx == {i \in 1..Len(w) : w[i].to = c}
                     RECURSIVE pick(_)
                     pick(i) == IF i > Len(w) THEN <<>>
                                ELSE IF i \in idx THEN <<w[i].line>> \o pick(i + 1)
                                ELSE pick(i + 1)
                 IN pick(1)

---------------------------------------------------------------------------
(* The user and contact store: src/utils/database.py *)

(* the user row as a sequence of at most one row: <<>> is Python's None *)
get_user_by_email(email) ==
    IF email \in Registered
    THEN << [email |-> email, password |-> password(email),
             display_name |-> displayOf(email)] >>
    ELSE <<>>

(* the rows of one owner, in table order *)
get_user_contacts(email) ==
    SelectSeq(contacts, LAMBDA r : r.owner = email)

InitContacts ==
    << [owner |-> "a@x", peer |-> "b@x", nickname |-> "B", list |-> "FL"],
       [owner |-> "a@x", peer |-> "b@x", nickname |-> "B", list |-> "RL"],
       [owner |-> "b@x", peer |-> "a@x", nickname |-> "A", list |-> "FL"],
       [owner |-> "b@x", peer |-> "a@x", nickname |-> "A", list |-> "RL"] >>

---------------------------------------------------------------------------
(* ClientManager: src/server/client_manager.py *)

StatusSet == {"NLN", "BSY", "HDN"}

(* add_client with the entry recorded as hidden *)
add_client_hidden(writer, email) ==
    LET client_id == next_client_id
        client_info == [id |-> client_id, email |-> email,
                        writer |-> writer, status |-> "HDN"]
    IN /\ next_client_id' = next_client_id + 1
       /\ clients' = With(clients, client_id, client_info)
       /\ email_to_client' = With(email_to_client, email, client_id)

(* add_client(writer, email): the new id and both maps *)
add_client(writer, email) ==
    LET client_id == next_client_id
        client_info == [id |-> client_id, email |-> email,
                        writer |-> writer, status |-> "NLN"]
    IN /\ next_client_id' = next_client_id + 1
       /\ clients' = With(clients, client_id, client_info)
       /\ email_to_client' = With(email_to_client, email, client_id)

(* the first entry, in insertion order, whose writer is `writer`; 0 if none *)
client_to_remove(writer) ==
    LET S == {i \in DOMAIN clients : clients[i].writer = writer}
    IN IF S = {} THEN 0 ELSE Min(S)

disconnect_client(writer) ==
    LET id == client_to_remove(writer)
    IN IF id # 0
       THEN LET email == clients[id].email
            IN /\ clients' = Without(clients, id)
               /\ email_to_client' = IF email \in DOMAIN email_to_client
                                     THEN Without(email_to_client, email)
                                     ELSE email_to_client
       ELSE UNCHANGED <<clients, email_to_client>>

(* get_client_by_email: <<>> is None *)
get_client_by_email(email) ==
    IF email \in DOMAIN email_to_client /\ email_to_client[email] \in DOMAIN clients
    THEN <<clients[email_to_client[email]]>>
    ELSE <<>>

(* the clients table after update_client_status(client_id, status) *)
update_client_status(client_id, status) ==
    IF client_id \in DOMAIN clients
    THEN [clients EXCEPT ![client_id].status = status]
    ELSE clients

---------------------------------------------------------------------------
(* MessageRouter (server/message_router.py is not among the sources): the
   fan-out of a presence change, from the specification's Router section.   *)

(* the peers that have `email` on their forward list: the reverse list of
   `email`, less the peers on its block list *)
Interested(email) ==
    {r.peer : r \in {x \in Range(contacts) : x.owner = email /\ x.list = "RL"}}
      \ {r.peer : r \in {x \in Range(contacts) : x.owner = email /\ x.list = "BL"}}

EmailOrder == <<"a@x", "b@x", "z@x">>

(* the lines the Router writes for a presence change of `email`: one to the
   registered Session of every interested peer *)
broadcast_status_change(email, status) ==
    LET peers == SelectSeq(EmailOrder,
                   LAMBDA p : p \in Interested(email) /\ get_client_by_email(p) # <<>>)
    IN [k \in 1..Len(peers) |->
          Wr(get_client_by_email(peers[k])[1].writer,
             <<status, "NLN", email, email, "0">>)]

---------------------------------------------------------------------------
(* MSNPProtocolHandler: src/server/protocol_handler.py.  Each handler is the
   whole coroutine, every write it makes included; it constrains h, the
   ClientManager, the store and `wrote`.                                    *)

(* the fields __init__ sets; client_id 0 is None; st is the connection:
   "none" not accepted yet, "open", "closed" *)
NewHandler == [st |-> "open", email |-> None, authenticated |-> FALSE,
               client_id |-> 0, protocol_version |-> None]
NoHandler  == [st |-> "none", email |-> None, authenticated |-> FALSE,
               client_id |-> 0, protocol_version |-> None]
(* after writer.close() the handler object is garbage *)
ClosedHandler == [NoHandler EXCEPT !.st = "closed"]

supported_versions ==
    <<"MSNP21", "MSNP20", "MSNP19", "MSNP18", "MSNP15",
      "MSNP12", "MSNP11", "MSNP10", "MSNP9", "MSNP8">>

(* the first of the client's versions that is in `order`: the client's
   preference, which the servers do not follow *)
RECURSIVE FirstOffered(_, _)
FirstOffered(order, client_versions) ==
    IF client_versions = <<>> THEN None
    ELSE IF Head(client_versions) \in Range(order) THEN Head(client_versions)
    ELSE FirstOffered(order, Tail(client_versions))

(* for version in order: if version in client_versions: return version *)
RECURSIVE FirstIn(_, _)
FirstIn(order, client_versions) ==
    IF order = <<>> THEN None
    ELSE IF Head(order) \in Range(client_versions) THEN Head(order)
    ELSE FirstIn(Tail(order), client_versions)

send_error(c, transaction_id, error_code) ==
    Wr(c, <<error_code, transaction_id>>)

handle_ver(c, parts) ==
    LET client_versions == IF Len(parts) > 2 THEN SubSeq(parts, 3, Len(parts)) ELSE <<>>
        found == FirstIn(supported_versions, client_versions)
        selected_version == IF found = None THEN "MSNP8" ELSE found
    IN /\ h' = [h EXCEPT ![c].protocol_version = selected_version]
       /\ wrote' = <<Wr(c, <<"VER", parts[2], selected_version>>)>>
       /\ UNCHANGED <<clients, email_to_client, next_client_id, contacts>>

(* handle_cvr that writes no reply *)
handle_cvr_silent(c, parts) ==
    /\ wrote' = <<>>
    /\ UNCHANGED <<h, clients, email_to_client, next_client_id, contacts>>

handle_cvr(c, parts) ==
    /\ wrote' = <<Wr(c, <<"CVR", parts[2], "8.5.1302", "8.5.1302", "8.5.1302",
                          "http://messenger.msn.com">>)>>
    /\ UNCHANGED <<h, clients, email_to_client, next_client_id, contacts>>

handle_usr(c, parts) ==
    IF Len(parts) < 4
    THEN /\ wrote' = <<send_error(c, parts[2], "911")>>
         /\ UNCHANGED <<h, clients, email_to_client, next_client_id, contacts>>
    ELSE IF parts[3] = "I"
    THEN \E challenge \in Nonces :
           /\ h' = [h EXCEPT ![c].email = parts[4]]
           /\ wrote' = <<Wr(c, <<"USR", parts[2], "S", challenge>>)>>
           /\ UNCHANGED <<clients, email_to_client, next_client_id, contacts>>
    ELSE IF parts[3] = "S" /\ h[c].email # None
    THEN IF get_user_by_email(h[c].email) # <<>>
         THEN /\ next_client_id <= MaxClientId
              /\ h' = [h EXCEPT ![c].authenticated = TRUE,
                                ![c].client_id = next_client_id]
              /\ add_client(c, h[c].email)
              /\ wrote' = <<Wr(c, <<"USR", parts[2], "OK", h[c].email, h[c].email,
                                    "1", "0">>)>>
              /\ UNCHANGED contacts
         ELSE /\ wrote' = <<send_error(c, parts[2], "911")>>
              /\ UNCHANGED <<h, clients, email_to_client, next_client_id, contacts>>
    ELSE /\ wrote' = <<>>
         /\ UNCHANGED <<h, clients, email_to_client, next_client_id, contacts>>

handle_syn(c, parts) ==
    IF ~h[c].authenticated
    THEN /\ wrote' = <<send_error(c, parts[2], "911")>>
         /\ UNCHANGED <<h, clients, email_to_client, next_client_id, contacts>>
    ELSE LET rows == get_user_contacts(h[c].email)
         IN /\ wrote' = [i \in 1..Len(rows) |->
                           Wr(c, <<"LST", rows[i].peer, rows[i].nickname, rows[i].list>>)]
                        \o <<Wr(c, <<"SYN", parts[2], DecStr(Len(rows)), "0">>)>>
            /\ UNCHANGED <<h, clients, email_to_client, next_client_id, contacts>>

handle_chg(c, parts) ==
    IF ~h[c].authenticated
    THEN /\ wrote' = <<send_error(c, parts[2], "911")>>
         /\ UNCHANGED <<h, clients, email_to_client, next_client_id, contacts>>
    ELSE IF Len(parts) >= 3
    THEN /\ clients' = update_client_status(h[c].client_id, parts[3])
         /\ wrote' = broadcast_status_change(h[c].email, parts[3])
                        \o <<Wr(c, <<"CHG", parts[2], parts[3], "0">>)>>
         /\ UNCHANGED <<h, email_to_client, next_client_id, contacts>>
    ELSE /\ wrote' = <<>>
         /\ UNCHANGED <<h, clients, email_to_client, next_client_id, contacts>>

handle_out(c, parts) ==
    /\ disconnect_client(c)
    /\ wrote' = <<Wr(c, <<"OUT">>)>>
    /\ UNCHANGED <<h, next_client_id, contacts>>

handle_png(c, parts) ==
    /\ wrote' = <<Wr(c, <<"QNG", "60">>)>>
    /\ UNCHANGED <<h, clients, email_to_client, next_client_id, contacts>>

handle_qng(c, parts) ==
    /\ wrote' = <<>>
    /\ UNCHANGED <<h, clients, email_to_client, next_client_id, contacts>>

(* process_command: fewer than two tokens, or a verb that is not in
   command_handlers, is dropped without a reply *)
Handled == {"VER", "CVR", "USR", "SYN", "CHG", "MSG", "ADD", "REM", "LST",
            "CAL", "ANS", "OUT", "PNG", "QNG"}

Dispatch(parts) ==
    IF Len(parts) < 2 THEN "return"
    ELSE IF parts[1] \in Handled THEN parts[1]
    ELSE "unknown"

no_handler(c, parts) ==
    /\ wrote' = <<>>
    /\ UNCHANGED <<h, clients, email_to_client, next_client_id, contacts>>

---------------------------------------------------------------------------
(* The threaded server: src/msn_messenger_server.py, class MSNPServer.
   A connection is named by the client_id its accept drew.                  *)

t_supported_versions == <<"MSNP2", "MSNP3", "MSNP4", "MSNP5", "MSNP6", "MSNP7">>

(* client_info as handle_client builds it; challenge and username are keys
   that the first USR adds (None: the key is absent) *)
NewClientInfo == [socket |-> "open", authenticated |-> FALSE, email |-> None,
                  version |-> None, status |-> "FLN",
                  challenge |-> None, username |-> None]

(* str.upper() of a verb *)
upper(tok) == CASE tok = "png" -> "PNG"
                [] tok = "out" -> "OUT"
                [] tok = "ver" -> "VER"
                [] OTHER -> tok

(* str.lower() of a digest: the upper-case spelling of a digest becomes the
   lower-case one, anything else is unchanged *)
DigestInputs == {Md5(password(e)) \o n : e \in Registered, n \in Nonces \cup {""}}

lower(s) == IF \E x \in DigestInputs : s = Md5Upper(x)
            THEN Md5(CHOOSE x \in DigestInputs : s = Md5Upper(x))
            ELSE s

(* send_response: socket.send, any error swallowed: a closed socket takes
   nothing *)
t_send(id, line) ==
    IF id \in DOMAIN tclients /\ tclients[id].socket = "open"
    THEN <<Wr(id, line)>> ELSE <<>>

t_send_error(id, error_code) == t_send(id, <<error_code>>)

get_display_name(email) ==
    IF email \in Registered THEN displayOf(email) ELSE "z"

authenticate_user(username, client_hash, challenge) ==
    IF username \in Registered
    THEN LET password_hash == Md5(password(username))
             expected_hash == Md5(password_hash \o challenge)
         IN lower(client_hash) = lower(expected_hash)
    ELSE FALSE

send_initial_presence(id, info) ==
    t_send(id, <<"NLN", info.status, info.email, get_display_name(info.email)>>)

RECURSIVE Concat(_)
Concat(ss) == IF ss = <<>> THEN <<>> ELSE Head(ss) \o Concat(Tail(ss))

(* the lines broadcast_status_change sends: to every other authenticated
   entry of the clients table, in table order *)
t_broadcast_status_change(id, info) ==
    LET status_message == <<"NLN", info.status, info.email,
                            get_display_name(info.email)>>
        others == SelectSeq([i \in 1..MaxConns |-> i],
                    LAMBDA o : o \in DOMAIN tclients /\ o # id
                               /\ tclients[o].authenticated)
    IN Concat([k \in 1..Len(others) |-> t_send(others[k], status_message)])

handle_ver_command(id, parts) ==
    IF Len(parts) < 3
    THEN /\ wrote' = t_send_error(id, "501")
         /\ UNCHANGED <<tclients, contacts>>
    ELSE LET client_versions == SubSeq(parts, 3, Len(parts))
             found == FirstIn(Reverse(t_supported_versions), client_versions)
             supported_version == IF found = None THEN "MSNP7" ELSE found
         IN /\ tclients' = [tclients EXCEPT ![id].version = supported_version]
            /\ wrote' = t_send(id, <<"VER", parts[2], supported_version>>)
            /\ UNCHANGED contacts

handle_cvr_command(id, parts) ==
    /\ wrote' = IF Len(parts) < 8 THEN t_send_error(id, "501")
                ELSE t_send(id, <<"CVR", parts[2], "7.0.0816", "7.0.0816", "7.0.0816",
                                  "http://messenger.msn.com", "http://messenger.msn.com">>)
    /\ UNCHANGED <<tclients, contacts>>

handle_usr_command(id, parts) ==
    IF Len(parts) < 4
    THEN /\ wrote' = t_send_error(id, "501")
         /\ UNCHANGED <<tclients, contacts>>
    ELSE IF parts[3] = "MD5" /\ Len(parts) = 4
    THEN \E challenge \in Nonces :
           /\ tclients' = [tclients EXCEPT ![id].challenge = challenge,
                                           ![id].username = parts[4]]
           /\ wrote' = t_send(id, <<"USR", parts[2], "MD5", "S", challenge>>)
           /\ UNCHANGED contacts
    ELSE IF parts[3] = "MD5" /\ Len(parts) = 5
    THEN LET username == parts[4]
             challenge == IF tclients[id].challenge = None THEN ""
                          ELSE tclients[id].challenge
         IN IF authenticate_user(username, parts[5], challenge)
            THEN LET info == [tclients[id] EXCEPT !.authenticated = TRUE,
                                                  !.email = username,
                                                  !.status = "NLN"]
                 IN /\ tclients' = [tclients EXCEPT ![id] = info]
                    /\ wrote' = t_send(id, <<"USR", parts[2], "OK", username,
                                             get_display_name(username)>>)
                                  \o send_initial_presence(id, info)
                    /\ UNCHANGED contacts
            ELSE /\ wrote' = t_send(id, <<"USR", parts[2], "911", "0">>)
                 /\ UNCHANGED <<tclients, contacts>>
    ELSE /\ wrote' = <<>>
         /\ UNCHANGED <<tclients, contacts>>

(* the contacts of a user of the users table (the query joins users) *)
t_get_user_contacts(email) ==
    IF email \in Registered THEN get_user_contacts(email) ELSE <<>>

handle_syn_command(id, parts) ==
    IF ~tclients[id].authenticated
    THEN /\ wrote' = t_send_error(id, "911")
         /\ UNCHANGED <<tclients, contacts>>
    ELSE LET transaction_id == IF Len(parts) > 1 THEN parts[2] ELSE "0"
             rows == t_get_user_contacts(tclients[id].email)
         IN /\ wrote' = t_send(id, <<"SYN", transaction_id, DecStr(Len(rows)), "0">>)
                          \o Concat([i \in 1..Len(rows) |->
                                t_send(id, <<"LST", rows[i].peer, rows[i].nickname,
                                             rows[i].list>>)])
            /\ UNCHANGED <<tclients, contacts>>

handle_chg_command(id, parts) ==
    IF ~tclients[id].authenticated
    THEN /\ wrote' = t_send_error(id, "911")
         /\ UNCHANGED <<tclients, contacts>>
    ELSE IF Len(parts) < 3
    THEN /\ wrote' = t_send_error(id, "501")
         /\ UNCHANGED <<tclients, contacts>>
    ELSE LET info == [tclients[id] EXCEPT !.status = parts[3]]
         IN /\ tclients' = [tclients EXCEPT ![id] = info]
            /\ wrote' = t_send(id, <<"CHG", parts[2], parts[3]>>)
                          \o t_broadcast_status_change(id, info)
            /\ UNCHANGED contacts

handle_out_command(id, parts) ==
    /\ wrote' = t_send(id, <<"OUT">>)
    /\ tclients' = [tclients EXCEPT ![id].socket = "closed"]
    /\ UNCHANGED contacts

handle_png_command(id, parts) ==
    /\ wrote' = t_send(id, <<"QNG", "50">>)
    /\ UNCHANGED <<tclients, contacts>>

handle_qng_command(id, parts) ==
    /\ wrote' = <<>>
    /\ UNCHANGED <<tclients, contacts>>

(* process_msnp_command: the verb is parts[0].upper(); an unknown verb is
   logged and dropped *)
THandled == {"VER", "CVR", "USR", "SYN", "CHG", "LST", "ADD", "REM", "MSG",
             "OUT", "PNG", "QNG"}

TDispatch(parts) ==
    IF Len(parts) < 1 THEN "return"
    ELSE IF upper(parts[1]) \in THandled THEN upper(parts[1])
    ELSE "unknown"

t_no_handler(id, parts) ==
    /\ wrote' = <<>>
    /\ UNCHANGED <<tclients, contacts>>

(* cleanup_client: the socket is closed and the entry deleted *)
cleanup_client(id) ==
    IF id \in DOMAIN tclients THEN Without(tclients, id) ELSE tclients


---------------------------------------------------------------------------
(* The commands a client sends, as token sequences. *)

MaxOffer == 2           \* dialects offered in one VER

Dialect(n) == "MSNP" \o DecStr(n)

(* the digests a client may answer a challenge with *)
Digest(e, n)      == Md5(Md5(password(e)) \o n)
DigestUpper(e, n) == Md5Upper(Md5(password(e)) \o n)

CvrArgs == <<"0x0409", "winnt", "10.0", "i386", "MSNMSGR", "8.5.1302", "msmsgs">>

VerCmds(tags) == {<<"VER", t>> \o o : t \in Tids, o \in SeqsUpTo(tags, MaxOffer)}
CvrCmds == {<<"CVR", t>> \o CvrArgs \o <<"a@x">> : t \in Tids} \cup {<<"CVR", "1">>}
SynCmds == {<<"SYN", t, "0", "0">> : t \in Tids} \cup {<<"SYN">>}
ChgCmds == {<<"CHG", t, s, "0">> : t \in Tids, s \in {"BSY", "HDN"}} \cup {<<"CHG", "1">>}
OutCmds == {<<"OUT">>, <<"OUT", "1">>}
PngCmds == {<<"PNG">>, <<"PNG", "1">>, <<"png">>, <<"QNG", "1">>}
OddCmds == {<<"XFR", "1", "SB">>}
Common  == CvrCmds \cup SynCmds \cup ChgCmds \cup OutCmds \cup PngCmds \cup OddCmds

(* One session's commands (SessionSpec): every verb, both tids, every
   identity, matching and non-matching digests. *)
AsyncCmds ==
    VerCmds({Dialect(8), Dialect(21), Dialect(99)})
      \cup {<<"USR", t, "I", e>> : t \in Tids, e \in Emails}
      \cup {<<"USR", t, "S", "dummy_hash">> : t \in Tids}
      \cup {<<"USR", "1", "I">>}
      \cup Common

ThreadedCmds ==
    VerCmds({Dialect(2), Dialect(7), Dialect(99)})
      \cup {<<"USR", t, "MD5", e>> : t \in Tids, e \in Emails}
      \cup {<<"USR", t, "MD5", "a@x", x>> : t \in Tids,
               x \in {Digest("a@x", "N1"), DigestUpper("a@x", "N1"),
                      Digest("a@x", ""), Digest("b@x", "N1"), "dummy_hash"}}
      \cup {<<"USR", t, "MD5", "b@x", Digest("b@x", "N1")>> : t \in Tids}
      \cup {<<"USR", "1", "MD5", "z@x", "dummy_hash">>, <<"USR", "1", "MD5">>}
      \cup Common

(* The commands of the connections that share the server (Spec): the
   authentication exchange, a presence change and the logout. *)
AsyncShared ==
    {<<"USR", "1", "I", e>> : e \in Registered}
      \cup {<<"USR", "2", "S", "dummy_hash">>, <<"CHG", "3", "BSY", "0">>,
            <<"OUT", "4">>, <<"OUT">>}

ThreadedShared ==
    {<<"USR", "1", "MD5", "a@x">>}
      \cup {<<"USR", "2", "MD5", e, Digest(e, "N1")>> : e \in Registered}
      \cup {<<"USR", "2", "MD5", "a@x", "dummy_hash">>, <<"CHG", "3", "BSY", "0">>,
            <<"OUT">>}

---------------------------------------------------------------------------
(* The state after construction. *)

NoEvent == [ev |-> "init", conn |-> 0, parts |-> <<>>]

(* the test client before it connects *)
NoClient == [who |-> None, status |-> None, pc |-> 0, inflight |-> <<>>,
             inbox |-> <<>>, waiting |-> FALSE, line |-> <<>>]

(* a thread of the threaded server that is in recv(), in no handler: pc is
   where it stands, `to` and `line` the send() it is in, pos/keys the
   iterator of broadcast_status_change, reached the peers it has sent to *)
IdleThread == [pc |-> "idle", to |-> 0, line |-> <<>>, pos |-> 0,
               keys |-> {}, reached |-> {}]
NoThreads  == [t \in 1..(MaxConns + 1) |-> IdleThread]

(* no ADD is being followed *)
NoMark == [store |-> <<>>, mid |-> <<>>, key |-> <<>>, stage |-> "none"]
Event(ev, c, parts) == [ev |-> ev, conn |-> c, parts |-> parts]

asyncVars == <<h, clients, email_to_client, next_client_id>>
thrVars   == <<tclients, client_counter>>

InitSession ==
    /\ h = [c \in Conns |-> NoHandler]
    /\ clients = <<>>
    /\ email_to_client = <<>>
    /\ next_client_id = 1
    /\ tclients = <<>>
    /\ client_counter = 1
    /\ contacts = InitContacts
    /\ last = NoEvent
    /\ wrote = <<>>

FrameOff ==
    /\ sent = <<>>
    /\ pending = <<>>
    /\ buf = <<>>
    /\ eof = FALSE
    /\ fpc = "off"
    /\ fcmd = <<>>
    /\ flines = <<>>
    /\ fpayloads = <<>>
    /\ fout = ""

Init ==
    /\ server \in {"async", "threaded"}
    /\ InitSession
    /\ FrameOff
    /\ pre = NoMark
    /\ attempts = [c \in Conns |-> 0]
    /\ tc = NoClient
    /\ threads = NoThreads

---------------------------------------------------------------------------
(* Steps of the async server: msnp_server.handle_client and the handlers
   that process_command routes to. *)

(* no step is under observation: the lines of the last step were delivered *)
Idle == last = NoEvent

a_open(c) == server = "async" /\ Idle /\ h[c].st = "open"

a_frame(c, parts) ==
    /\ last' = Event("cmd", c, parts)
    /\ UNCHANGED <<server, pre, attempts, tc, threads, thrVars, frameVars>>

a_accept(c) ==
    /\ server = "async" /\ Idle
    /\ h[c].st = "none"
    /\ \A d \in Conns : d < c => h[d].st # "none"
    /\ h' = [h EXCEPT ![c] = NewHandler]
    /\ wrote' = <<>>
    /\ last' = Event("accept", c, <<>>)
    /\ UNCHANGED <<clients, email_to_client, next_client_id, contacts>>
    /\ UNCHANGED <<server, pre, attempts, tc, threads, thrVars, frameVars>>

(* readline returns b'': the loop ends and handle_client's finally runs *)
a_eof(c) ==
    /\ a_open(c)
    /\ disconnect_client(c)
    /\ h' = [h EXCEPT ![c] = ClosedHandler]
    /\ wrote' = <<>>
    /\ last' = Event("eof", c, <<>>)
    /\ UNCHANGED <<next_client_id, contacts>>
    /\ UNCHANGED <<server, pre, attempts, tc, threads, thrVars, frameVars>>

a_ver(c, parts) ==
    a_open(c) /\ Dispatch(parts) = "VER" /\ handle_ver(c, parts) /\ a_frame(c, parts)
a_cvr(c, parts) ==
    a_open(c) /\ Dispatch(parts) = "CVR" /\ handle_cvr(c, parts) /\ a_frame(c, parts)
a_usr(c, parts) ==
    a_open(c) /\ Dispatch(parts) = "USR" /\ handle_usr(c, parts) /\ a_frame(c, parts)
a_syn(c, parts) ==
    a_open(c) /\ Dispatch(parts) = "SYN" /\ handle_syn(c, parts) /\ a_frame(c, parts)
a_chg(c, parts) ==
    a_open(c) /\ Dispatch(parts) = "CHG" /\ handle_chg(c, parts) /\ a_frame(c, parts)
a_out(c, parts) ==
    a_open(c) /\ Dispatch(parts) = "OUT" /\ handle_out(c, parts) /\ a_frame(c, parts)
a_png(c, parts) ==
    a_open(c) /\ Dispatch(parts) = "PNG" /\ handle_png(c, parts) /\ a_frame(c, parts)
a_qng(c, parts) ==
    a_open(c) /\ Dispatch(parts) = "QNG" /\ handle_qng(c, parts) /\ a_frame(c, parts)
a_dropped(c, parts) ==
    /\ a_open(c) /\ Dispatch(parts) \in {"return", "unknown"}
    /\ no_handler(c, parts) /\ a_frame(c, parts)

---------------------------------------------------------------------------
(* Steps of the threaded server: start_server's accept, handle_client's
   loop and the handlers process_msnp_command routes to. *)

t_open(id) == server = "threaded" /\ Idle /\ id \in DOMAIN tclients
                /\ tclients[id].socket = "open"

t_frame(id, parts) ==
    /\ last' = Event("cmd", id, parts)
    /\ UNCHANGED <<server, pre, attempts, tc, threads, asyncVars, client_counter, frameVars>>

t_accept ==
    /\ server = "threaded" /\ Idle
    /\ client_counter <= MaxConns
    /\ tclients' = With(tclients, client_counter, NewClientInfo)
    /\ client_counter' = client_counter + 1
    /\ wrote' = <<>>
    /\ last' = Event("accept", client_counter, <<>>)
    /\ UNCHANGED <<server, pre, attempts, tc, threads, asyncVars, contacts, frameVars>>

(* recv returns b'' (the client closed): the loop ends, cleanup_client runs *)
t_eof(id) ==
    /\ t_open(id)
    /\ tclients' = cleanup_client(id)
    /\ wrote' = <<>>
    /\ last' = Event("eof", id, <<>>)
    /\ UNCHANGED <<server, pre, attempts, tc, threads, asyncVars, client_counter, contacts, frameVars>>

(* recv on the socket handle_out_command closed raises: cleanup_client runs *)
t_closed(id) ==
    /\ server = "threaded" /\ Idle /\ id \in DOMAIN tclients
    /\ tclients[id].socket = "closed"
    /\ tclients' = cleanup_client(id)
    /\ wrote' = <<>>
    /\ last' = Event("cleanup", id, <<>>)
    /\ UNCHANGED <<server, pre, attempts, tc, threads, asyncVars, client_counter, contacts, frameVars>>

t_ver(id, parts) ==
    t_open(id) /\ TDispatch(parts) = "VER" /\ handle_ver_command(id, parts) /\ t_frame(id, parts)
t_cvr(id, parts) ==
    t_open(id) /\ TDispatch(parts) = "CVR" /\ handle_cvr_command(id, parts) /\ t_frame(id, parts)
t_usr(id, parts) ==
    t_open(id) /\ TDispatch(parts) = "USR" /\ handle_usr_command(id, parts) /\ t_frame(id, parts)
t_syn(id, parts) ==
    t_open(id) /\ TDispatch(parts) = "SYN" /\ handle_syn_command(id, parts) /\ t_frame(id, parts)
t_chg(id, parts) ==
    t_open(id) /\ TDispatch(parts) = "CHG" /\ handle_chg_command(id, parts) /\ t_frame(id, parts)
t_out(id, parts) ==
    t_open(id) /\ TDispatch(parts) = "OUT" /\ handle_out_command(id, parts) /\ t_frame(id, parts)
t_png(id, parts) ==
    t_open(id) /\ TDispatch(parts) = "PNG" /\ handle_png_command(id, parts) /\ t_frame(id, parts)
t_qng(id, parts) ==
    t_open(id) /\ TDispatch(parts) = "QNG" /\ handle_qng_command(id, parts) /\ t_frame(id, parts)
t_dropped(id, parts) ==
    /\ t_open(id) /\ TDispatch(parts) \in {"return", "unknown"}
    /\ t_no_handler(id, parts) /\ t_frame(id, parts)

---------------------------------------------------------------------------

(* the lines of the last step reach their connections; the step is no
   longer under observation *)
Drain ==
    /\ ~Idle
    /\ last' = NoEvent
    /\ wrote' = <<>>
    /\ UNCHANGED <<server, pre, attempts, tc, threads, sessVars, frameVars>>

(* Spec: MaxConns connections share the server *)
Next ==
    \/ Drain
    \/ \E c \in Conns : a_accept(c)
    \/ \E c \in Conns : a_eof(c)
    \/ \E c \in Conns, parts \in AsyncShared : a_usr(c, parts)
    \/ \E c \in Conns, parts \in AsyncShared : a_chg(c, parts)
    \/ \E c \in Conns, parts \in AsyncShared : a_out(c, parts)
    \/ \E c \in Conns, parts \in AsyncShared : a_dropped(c, parts)
    \/ t_accept
    \/ \E id \in Conns : t_eof(id)
    \/ \E id \in Conns : t_closed(id)
    \/ \E id \in Conns, parts \in ThreadedShared : t_usr(id, parts)
    \/ \E id \in Conns, parts \in ThreadedShared : t_chg(id, parts)
    \/ \E id \in Conns, parts \in ThreadedShared : t_out(id, parts)

Spec == Init /\ [][Next]_vars

(* SessionSpec: one connection, every verb *)
SessionNext ==
    \/ Drain
    \/ a_accept(1)
    \/ a_eof(1)
    \/ \E parts \in AsyncCmds : a_ver(1, parts)
    \/ \E parts \in AsyncCmds : a_cvr(1, parts)
    \/ \E parts \in AsyncCmds : a_usr(1, parts)
    \/ \E parts \in AsyncCmds : a_syn(1, parts)
    \/ \E parts \in AsyncCmds : a_chg(1, parts)
    \/ \E parts \in AsyncCmds : a_out(1, parts)
    \/ \E parts \in AsyncCmds : a_png(1, parts)
    \/ \E parts \in AsyncCmds : a_qng(1, parts)
    \/ \E parts \in AsyncCmds : a_dropped(1, parts)
    \/ client_counter = 1 /\ t_accept
    \/ t_eof(1)
    \/ t_closed(1)
    \/ \E parts \in ThreadedCmds : t_ver(1, parts)
    \/ \E parts \in ThreadedCmds : t_cvr(1, parts)
    \/ \E parts \in ThreadedCmds : t_usr(1, parts)
    \/ \E parts \in ThreadedCmds : t_syn(1, parts)
    \/ \E parts \in ThreadedCmds : t_chg(1, parts)
    \/ \E parts \in ThreadedCmds : t_out(1, parts)
    \/ \E parts \in ThreadedCmds : t_png(1, parts)
    \/ \E parts \in ThreadedCmds : t_qng(1, parts)
    \/ \E parts \in ThreadedCmds : t_dropped(1, parts)

SessionSpec == Init /\ [][SessionNext]_vars

---------------------------------------------------------------------------
(* The byte level of one connection (FrameSpec): what the reader loops make
   of the bytes a client sends, for every way the transport may cut them
   into segments.  A byte is a one-character string; bytes are ASCII.       *)

MaxLength == 9          \* greatest declared payload length int() is asked for

IsSpace(ch) == ch \in {" ", "\t", "\r", "\n"}

(* bytes.decode / str of a byte sequence *)
RECURSIVE decode(_)
decode(s) == IF s = <<>> THEN "" ELSE Head(s) \o decode(Tail(s))

RECURSIVE lstrip(_)
lstrip(s) == IF s # <<>> /\ IsSpace(Head(s)) THEN lstrip(Tail(s)) ELSE s

(* str.strip() *)
strip(s) == Reverse(lstrip(Reverse(lstrip(s))))

(* str.split(' '): every single space separates, empty tokens are kept *)
RECURSIVE split_space(_, _)
split_space(s, cur) ==
    IF s = <<>> THEN <<decode(cur)>>
    ELSE IF Head(s) = " " THEN <<decode(cur)>> \o split_space(Tail(s), <<>>)
    ELSE split_space(Tail(s), Append(cur, Head(s)))

(* str.split(): runs of whitespace separate, no empty tokens *)
RECURSIVE split_ws(_, _)
split_ws(s, cur) ==
    LET tok == IF cur = <<>> THEN <<>> ELSE <<decode(cur)>>
    IN IF s = <<>> THEN tok
       ELSE IF IsSpace(Head(s)) THEN tok \o split_ws(Tail(s), <<>>)
       ELSE split_ws(Tail(s), Append(cur, Head(s)))

(* int(tok): the number a decimal token spells, -1 for ValueError *)
int(tok) == IF \E n \in 0..MaxLength : DecStr(n) = tok
            THEN CHOOSE n \in 0..MaxLength : DecStr(n) = tok
            ELSE -1

(* the line a response f-string spells: tokens, single spaces, CR LF *)
RECURSIVE join(_)
join(toks) == IF toks = <<>> THEN ""
              ELSE IF Len(toks) = 1 THEN toks[1]
              ELSE toks[1] \o " " \o join(Tail(toks))

Encode(line) == join(line) \o "\r\n"

RECURSIVE EncodeAll(_)
EncodeAll(lines) == IF lines = <<>> THEN ""
                    ELSE Encode(Head(lines)) \o EncodeAll(Tail(lines))

(* StreamReader.readline(): the bytes up to and including the first LF;
   with no LF in the buffer, at end of stream, everything that is left *)
HasLF(s) == \E i \in 1..Len(s) : s[i] = "\n"

readline(s) == IF HasLF(s)
               THEN SubSeq(s, 1, Min({i \in 1..Len(s) : s[i] = "\n"}))
               ELSE s

(* str.find('\r\n'), 1-based; 0 when there is none *)
find_crlf(s) ==
    LET at == {i \in 1..(Len(s) - 1) : s[i] = "\r" /\ s[i + 1] = "\n"}
    IN IF at = {} THEN 0 ELSE Min(at)

---------------------------------------------------------------------------
(* MSG *)

(* handle_msg up to its await: what the handler does with the header.
   "read": it goes on to reader.read(msg_length); "raise": int() raised *)
handle_msg_header(c, parts) ==
    IF ~h[c].authenticated THEN "911"
    ELSE IF Len(parts) >= 4
         THEN (IF int(parts[4]) < 0 THEN "raise" ELSE "read")
    ELSE "nothing"

(* StreamReader.read(n): at most n bytes, as many as the buffer holds *)
read(s, n) == SubSeq(s, 1, Min({n, Len(s)}))

(* handle_msg_command: the body the handler takes out of the segment it was
   handed, or None when it takes none *)
msg_body(parts, full_message) ==
    LET header_end == find_crlf(full_message)
        msg_length == int(parts[4])
    IN IF header_end = 0 THEN None
       ELSE decode(SubSeq(full_message, header_end + 2,
                          Min({Len(full_message), header_end + 1 + msg_length})))

(* forward_message: one write, header and body, to every authenticated
   entry whose email is the recipient *)
forward_message(from_user, to_user, message) ==
    LET to == SelectSeq([i \in 1..MaxConns |-> i],
                LAMBDA o : o \in DOMAIN tclients /\ tclients[o].authenticated
                           /\ tclients[o].email = to_user)
    IN Concat([k \in 1..Len(to) |->
                 t_send(to[k], <<"MSG", from_user, get_display_name(from_user),
                                 message>>)])

(* "raise": int() raised, process_msnp_command answers 911 *)
handle_msg_command(id, parts, full_message) ==
    IF ~tclients[id].authenticated
    THEN /\ wrote' = t_send_error(id, "911")
         /\ UNCHANGED <<tclients, contacts>>
    ELSE IF Len(parts) < 4
    THEN /\ wrote' = t_send_error(id, "501")
         /\ UNCHANGED <<tclients, contacts>>
    ELSE IF int(parts[4]) < 0
    THEN /\ wrote' = t_send_error(id, "911")
         /\ UNCHANGED <<tclients, contacts>>
    ELSE LET recipient == IF parts[3] # "U" THEN parts[3] ELSE None
             message_body == msg_body(parts, full_message)
         IN /\ wrote' = IF message_body = None THEN <<>>
                        ELSE t_send(id, <<"ACK", parts[2]>>)
                               \o (IF recipient # None
                                   THEN forward_message(tclients[id].email,
                                                        recipient, message_body)
                                   ELSE <<>>)
            /\ UNCHANGED <<tclients, contacts>>
---------------------------------------------------------------------------
(* The streams a client sends, and the ways to cut one into segments. *)

VerOut == <<"V","E","R"," ","1"," ","M","S","N","P","8","\r","\n",
            "O","U","T","\r","\n">>
MsgPng == <<"M","S","G"," ","3"," ","U"," ","5","\r","\n",
            "h","e","l","l","o",
            "P","N","G"," ","4","\r","\n">>
BlankPng == <<"\r","\n","P","N","G"," ","4","\r","\n">>
MsgBadLength == <<"M","S","G"," ","3"," ","U"," ","x","\r","\n">>

Streams == {VerOut, MsgPng, BlankPng, MsgBadLength}

(* the sets of at most k cut points of a stream of n bytes; cut point i
   separates byte i from byte i + 1 *)
RECURSIVE CutSets(_, _)
CutSets(n, k) ==
    IF k = 0 THEN {{}}
    ELSE LET less == CutSets(n, k - 1)
         IN less \cup {K \cup {i} : K \in less, i \in 1..(n - 1)}

RECURSIVE Segments(_, _, _)
Segments(s, K, from) ==
    LET ahead == {k \in K : k >= from}
    IN IF ahead = {} THEN <<SubSeq(s, from, Len(s))>>
       ELSE <<SubSeq(s, from, Min(ahead))>> \o Segments(s, K, Min(ahead) + 1)

(* connection 1 as the handshake leaves it, or as accept leaves it *)
AuthedHandler == [st |-> "open", email |-> "a@x", authenticated |-> TRUE,
                  client_id |-> 1, protocol_version |-> "MSNP8"]
AuthedClientInfo == [socket |-> "open", authenticated |-> TRUE, email |-> "a@x",
                     version |-> "MSNP7", status |-> "NLN",
                     challenge |-> "N1", username |-> "a@x"]

FrameSession(auth) ==
    /\ contacts = InitContacts
    /\ last = NoEvent
    /\ wrote = <<>>
    /\ IF server = "async"
       THEN /\ h = [c \in Conns |-> IF c # 1 THEN NoHandler
                                    ELSE IF auth THEN AuthedHandler ELSE NewHandler]
            /\ clients = IF auth THEN With(<<>>, 1, [id |-> 1, email |-> "a@x",
                                                     writer |-> 1, status |-> "NLN"])
                         ELSE <<>>
            /\ email_to_client = IF auth THEN With(<<>>, "a@x", 1) ELSE <<>>
            /\ next_client_id = IF auth THEN 2 ELSE 1
            /\ tclients = <<>>
            /\ client_counter = 1
       ELSE /\ h = [c \in Conns |-> NoHandler]
            /\ clients = <<>>
            /\ email_to_client = <<>>
            /\ next_client_id = 1
            /\ tclients = With(<<>>, 1, IF auth THEN AuthedClientInfo ELSE NewClientInfo)
            /\ client_counter = 2

FrameInit ==
    /\ server \in {"async", "threaded"}
    /\ sent \in Streams
    /\ \E auth \in (IF sent = VerOut THEN {FALSE} ELSE BOOLEAN) : FrameSession(auth)
    /\ pending \in {Segments(sent, K, 1) : K \in CutSets(Len(sent), MaxCuts)}
    /\ buf = <<>>
    /\ eof = FALSE
    /\ fpc = "readline"
    /\ fcmd = <<>>
    /\ flines = <<>>
    /\ fpayloads = <<>>
    /\ fout = ""
    /\ pre = NoMark
    /\ attempts = [c \in Conns |-> 0]
    /\ tc = NoClient
    /\ threads = NoThreads

---------------------------------------------------------------------------
(* Steps at the byte level *)

(* the bytes the step wrote to connection 1 follow those written before *)
f_written == fout' = fout \o EncodeAll(LinesTo(1, wrote'))

(* the next segment arrives.  A read(n) that finds bytes in the buffer
   returns at once: no segment arrives between readline and that read. *)
f_arrive ==
    /\ fpc \in {"readline", "payload"}
    /\ pending # <<>>
    /\ ~(fpc = "payload" /\ buf # <<>>)
    /\ buf' = buf \o Head(pending)
    /\ pending' = Tail(pending)
    /\ UNCHANGED <<server, pre, attempts, tc, threads, sessVars, obsVars, sent, eof, fpc, fcmd, flines,
                   fpayloads, fout>>

(* the client closes its side once everything it sent has arrived *)
f_client_eof ==
    /\ fpc \in {"readline", "payload"}
    /\ pending = <<>> /\ ~eof
    /\ eof' = TRUE
    /\ UNCHANGED <<server, pre, attempts, tc, threads, sessVars, obsVars, sent, pending, buf, fpc, fcmd,
                   flines, fpayloads, fout>>

(* msnp_server.handle_client's finally, after handle_connection returned *)
a_finally ==
    /\ disconnect_client(1)
    /\ h' = [h EXCEPT ![1] = ClosedHandler]
    /\ wrote' = <<>>
    /\ fpc' = "done"
    /\ UNCHANGED <<next_client_id, contacts, fcmd>>

(* process_command without MSG *)
process_command(c, parts) ==
    CASE Dispatch(parts) = "VER" -> handle_ver(c, parts)
      [] Dispatch(parts) = "CVR" -> handle_cvr(c, parts)
      [] Dispatch(parts) = "USR" -> handle_usr(c, parts)
      [] Dispatch(parts) = "SYN" -> handle_syn(c, parts)
      [] Dispatch(parts) = "CHG" -> handle_chg(c, parts)
      [] Dispatch(parts) = "OUT" -> handle_out(c, parts)
      [] Dispatch(parts) = "PNG" -> handle_png(c, parts)
      [] Dispatch(parts) = "QNG" -> handle_qng(c, parts)
      [] Dispatch(parts) \in {"return", "unknown"} -> no_handler(c, parts)

(* one turn of handle_connection's loop: readline, strip, process_command *)
a_readline ==
    /\ server = "async" /\ fpc = "readline" /\ h[1].st = "open"
    /\ (HasLF(buf) \/ eof)
    /\ LET data == readline(buf)
           message == strip(data)
           parts == split_space(message, <<>>)
       IN /\ buf' = SubSeq(buf, Len(data) + 1, Len(buf))
          /\ last' = Event("cmd", 1, IF message = <<>> THEN <<>> ELSE parts)
          /\ flines' = IF message = <<>> THEN flines
                       ELSE Append(flines, decode(message))
          /\ IF data = <<>> THEN a_finally
             ELSE IF message = <<>>
             THEN /\ wrote' = <<>>
                  /\ UNCHANGED <<h, clients, email_to_client, next_client_id,
                                 contacts, fpc, fcmd>>
             ELSE IF Dispatch(parts) # "MSG"
             THEN /\ process_command(1, parts)
                  /\ UNCHANGED <<fpc, fcmd>>
             ELSE IF handle_msg_header(1, parts) = "raise" THEN a_finally
             ELSE /\ wrote' = IF handle_msg_header(1, parts) = "911"
                              THEN <<send_error(1, parts[2], "911")>> ELSE <<>>
                  /\ fpc' = IF handle_msg_header(1, parts) = "read"
                            THEN "payload" ELSE "readline"
                  /\ fcmd' = IF handle_msg_header(1, parts) = "read"
                             THEN parts ELSE <<>>
                  /\ UNCHANGED <<h, clients, email_to_client, next_client_id,
                                 contacts>>
    /\ f_written
    /\ UNCHANGED <<server, pre, attempts, tc, threads, thrVars, sent, pending, eof, fpayloads>>

(* handle_msg from its await on: reader.read(msg_length), then the reply *)
a_read_payload ==
    /\ server = "async" /\ fpc = "payload"
    /\ (int(fcmd[4]) = 0 \/ buf # <<>> \/ eof)
    /\ LET payload == read(buf, int(fcmd[4]))
       IN /\ buf' = SubSeq(buf, Len(payload) + 1, Len(buf))
          /\ fpayloads' = Append(fpayloads, decode(payload))
    /\ wrote' = <<Wr(1, <<"MSG", fcmd[2], "OK">>)>>
    /\ last' = Event("payload", 1, fcmd)
    /\ fpc' = "readline"
    /\ fcmd' = <<>>
    /\ f_written
    /\ UNCHANGED <<server, pre, attempts, tc, threads, sessVars, sent, pending, eof, flines>>

(* process_msnp_command with its except clause *)
process_msnp_command(id, parts, message) ==
    CASE TDispatch(parts) = "VER" -> handle_ver_command(id, parts)
      [] TDispatch(parts) = "CVR" -> handle_cvr_command(id, parts)
      [] TDispatch(parts) = "USR" -> handle_usr_command(id, parts)
      [] TDispatch(parts) = "SYN" -> handle_syn_command(id, parts)
      [] TDispatch(parts) = "CHG" -> handle_chg_command(id, parts)
      [] TDispatch(parts) = "MSG" -> handle_msg_command(id, parts, message)
      [] TDispatch(parts) = "OUT" -> handle_out_command(id, parts)
      [] TDispatch(parts) = "PNG" -> handle_png_command(id, parts)
      [] TDispatch(parts) = "QNG" -> handle_qng_command(id, parts)
      [] TDispatch(parts) \in {"return", "unknown"} -> t_no_handler(id, parts)

(* one turn of handle_client's loop: recv(4096) takes what has arrived,
   strip, process_msnp_command; recv on the socket OUT closed raises *)
t_recv ==
    /\ server = "threaded" /\ fpc = "readline" /\ 1 \in DOMAIN tclients
    /\ (buf # <<>> \/ eof \/ tclients[1].socket = "closed")
    /\ LET data == IF tclients[1].socket = "closed" THEN <<>> ELSE buf
           message == strip(data)
           parts == split_ws(message, <<>>)
       IN /\ buf' = SubSeq(buf, Len(data) + 1, Len(buf))
          /\ last' = Event("cmd", 1, parts)
          /\ flines' = IF message = <<>> THEN flines
                       ELSE Append(flines, decode(message))
          /\ IF data = <<>>
             THEN /\ tclients' = cleanup_client(1)
                  /\ wrote' = <<>>
                  /\ fpc' = "done"
                  /\ UNCHANGED <<contacts, fpayloads>>
             ELSE /\ process_msnp_command(1, parts, message)
                  /\ fpayloads' =
                        IF /\ TDispatch(parts) = "MSG" /\ tclients[1].authenticated
                           /\ Len(parts) >= 4 /\ int(parts[4]) >= 0
                           /\ msg_body(parts, message) # None
                        THEN Append(fpayloads, msg_body(parts, message))
                        ELSE fpayloads
                  /\ fpc' = fpc
    /\ f_written
    /\ UNCHANGED <<server, pre, attempts, tc, threads, asyncVars, client_counter, sent, pending, eof, fcmd>>

FrameNext ==
    \/ f_arrive
    \/ f_client_eof
    \/ a_readline
    \/ a_read_payload
    \/ t_recv

FrameSpec == FrameInit /\ [][FrameNext]_vars

---------------------------------------------------------------------------
(* ADD and REM: the contact store of each server and the handlers.  A row
   is [owner, peer, nickname, list]; the table is in insertion order.       *)

MaxRows == 2            \* rows of the contacts table in an initial store

(* DatabaseManager.add_contact: the table after the INSERT; a NULL owner or
   a row with the same (owner, contact, list) raises IntegrityError and
   leaves the table as it is *)
add_contact(owner_email, contact_email, nickname, list_type) ==
    IF \/ owner_email = None
       \/ \E i \in 1..Len(contacts) : /\ contacts[i].owner = owner_email
                                      /\ contacts[i].peer = contact_email
                                      /\ contacts[i].list = list_type
    THEN contacts
    ELSE Append(contacts, [owner |-> owner_email, peer |-> contact_email,
                           nickname |-> nickname, list |-> list_type])

(* a DELETE that forgets the list: every row of the peer goes *)
remove_peer(owner_email, contact_email, list_type) ==
    SelectSeq(contacts, LAMBDA r : ~(r.owner = owner_email /\ r.peer = contact_email))

(* DatabaseManager.remove_contact: the table after the DELETE *)
remove_contact(owner_email, contact_email, list_type) ==
    SelectSeq(contacts, LAMBDA r : ~(/\ r.owner = owner_email
                                     /\ r.peer = contact_email
                                     /\ r.list = list_type))

(* MSNPServer.add_contact: the table has no unique constraint, INSERT OR
   REPLACE inserts a new row for every user of the users table *)
t_add_contact(user_email, contact_email, contact_name, list_type) ==
    IF user_email \in Registered
    THEN Append(contacts, [owner |-> user_email, peer |-> contact_email,
                           nickname |-> contact_name, list |-> list_type])
    ELSE contacts

(* MSNPServer.remove_contact: every matching row goes *)
t_remove_contact(user_email, contact_email, list_type) ==
    SelectSeq(contacts, LAMBDA r : ~(/\ r.owner = user_email
                                     /\ r.peer = contact_email
                                     /\ r.list = list_type))

handle_add(c, parts) ==
    IF Len(parts) >= 5
    THEN /\ contacts' = add_contact(h[c].email, parts[4], parts[5], parts[3])
         /\ wrote' = <<Wr(c, <<"ADD", parts[2], parts[3], parts[4], parts[5]>>)>>
         /\ UNCHANGED <<h, clients, email_to_client, next_client_id>>
    ELSE /\ wrote' = <<>>
         /\ UNCHANGED <<h, clients, email_to_client, next_client_id, contacts>>

handle_rem(c, parts) ==
    IF Len(parts) >= 4
    THEN /\ contacts' = remove_contact(h[c].email, parts[4], parts[3])
         /\ wrote' = <<Wr(c, <<"REM", parts[2], parts[3], parts[4]>>)>>
         /\ UNCHANGED <<h, clients, email_to_client, next_client_id>>
    ELSE /\ wrote' = <<>>
         /\ UNCHANGED <<h, clients, email_to_client, next_client_id, contacts>>

handle_add_command(id, parts) ==
    IF ~tclients[id].authenticated
    THEN /\ wrote' = t_send_error(id, "911")
         /\ UNCHANGED <<tclients, contacts>>
    ELSE IF Len(parts) < 5
    THEN /\ wrote' = t_send_error(id, "501")
         /\ UNCHANGED <<tclients, contacts>>
    ELSE /\ contacts' = t_add_contact(tclients[id].email, parts[4], parts[5], parts[3])
         /\ wrote' = t_send(id, <<"ADD", parts[2], parts[3], parts[4], parts[5]>>)
         /\ UNCHANGED tclients

handle_rem_command(id, parts) ==
    IF ~tclients[id].authenticated
    THEN /\ wrote' = t_send_error(id, "911")
         /\ UNCHANGED <<tclients, contacts>>
    ELSE IF Len(parts) < 4
    THEN /\ wrote' = t_send_error(id, "501")
         /\ UNCHANGED <<tclients, contacts>>
    ELSE /\ contacts' = t_remove_contact(tclients[id].email, parts[4], parts[3])
         /\ wrote' = t_send(id, <<"REM", parts[2], parts[3], parts[4]>>)
         /\ UNCHANGED tclients

(* the store before (store) and after (mid) an ADD of (owner, list, peer),
   kept while the next command is awaited; a REM of the same (list, peer)
   closes the pair *)
MarkAdd(owner, parts) ==
    IF Len(parts) >= 5
    THEN [store |-> contacts, mid |-> contacts',
          key |-> <<owner, parts[3], parts[4]>>, stage |-> "added"]
    ELSE NoMark

MarkRem(owner, parts) ==
    IF Len(parts) >= 4 /\ pre.stage = "added" /\ pre.key = <<owner, parts[3], parts[4]>>
    THEN [pre EXCEPT !.stage = "removed"]
    ELSE NoMark

a_add(c, parts) ==
    /\ a_open(c) /\ Dispatch(parts) = "ADD"
    /\ Len(contacts) <= MaxRows
    /\ handle_add(c, parts)
    /\ last' = Event("cmd", c, parts)
    /\ pre' = MarkAdd(h[c].email, parts)
    /\ UNCHANGED <<server, attempts, tc, threads, thrVars, frameVars>>

a_rem(c, parts) ==
    /\ a_open(c) /\ Dispatch(parts) = "REM"
    /\ handle_rem(c, parts)
    /\ last' = Event("cmd", c, parts)
    /\ pre' = MarkRem(h[c].email, parts)
    /\ UNCHANGED <<server, attempts, tc, threads, thrVars, frameVars>>

t_add(id, parts) ==
    /\ t_open(id) /\ TDispatch(parts) = "ADD"
    /\ Len(contacts) <= MaxRows
    /\ handle_add_command(id, parts)
    /\ last' = Event("cmd", id, parts)
    /\ pre' = MarkAdd(tclients[id].email, parts)
    /\ UNCHANGED <<server, attempts, tc, threads, asyncVars, client_counter, frameVars>>

t_rem(id, parts) ==
    /\ t_open(id) /\ TDispatch(parts) = "REM"
    /\ handle_rem_command(id, parts)
    /\ last' = Event("cmd", id, parts)
    /\ pre' = MarkRem(tclients[id].email, parts)
    /\ UNCHANGED <<server, attempts, tc, threads, asyncVars, client_counter, frameVars>>

---------------------------------------------------------------------------
(* StoreSpec: one connection works on a contact store drawn from the
   stores of at most MaxRows rows. *)

Lists == {"FL", "AL"}
Peers == {"b@x", "z@x"}

Rows == {[owner |-> o, peer |-> p, nickname |-> get_display_name(p), list |-> l] :
            o \in Registered, p \in Peers, l \in Lists}

(* the tables the schema admits: database.py declares
   UNIQUE(owner_email, contact_email, list_type), the threaded server's
   table declares no constraint *)
Stores ==
    {s \in SeqsUpTo(Rows, MaxRows) :
        server = "async" =>
           \A i, j \in 1..Len(s) :
              (i # j) => <<s[i].owner, s[i].peer, s[i].list>>
                           # <<s[j].owner, s[j].peer, s[j].list>>}

AddCmds == {<<"ADD", "5", l, p, "N">> : l \in Lists, p \in Peers}
              \cup {<<"ADD", "5", "FL">>}
RemCmds == {<<"REM", "6", l, p>> : l \in Lists, p \in Peers} \cup {<<"REM", "6">>}
StoreSynCmds == {<<"SYN", "7", "0", "0">>}

StoreInit ==
    /\ server \in {"async", "threaded"}
    /\ contacts \in Stores
    /\ last = NoEvent
    /\ wrote = <<>>
    /\ h = [c \in Conns |-> IF c = 1 /\ server = "async" THEN AuthedHandler
                            ELSE NoHandler]
    /\ clients = IF server = "async"
                 THEN With(<<>>, 1, [id |-> 1, email |-> "a@x",
                                     writer |-> 1, status |-> "NLN"])
                 ELSE <<>>
    /\ email_to_client = IF server = "async" THEN With(<<>>, "a@x", 1) ELSE <<>>
    /\ next_client_id = IF server = "async" THEN 2 ELSE 1
    /\ tclients = IF server = "threaded" THEN With(<<>>, 1, AuthedClientInfo) ELSE <<>>
    /\ client_counter = IF server = "threaded" THEN 2 ELSE 1
    /\ FrameOff
    /\ pre = NoMark
    /\ attempts = [c \in Conns |-> 0]
    /\ tc = NoClient
    /\ threads = NoThreads

StoreNext ==
    \/ Drain
    \/ \E parts \in AddCmds : a_add(1, parts)
    \/ \E parts \in RemCmds : a_rem(1, parts)
    \/ \E parts \in StoreSynCmds : a_syn(1, parts)
    \/ \E parts \in AddCmds : t_add(1, parts)
    \/ \E parts \in RemCmds : t_rem(1, parts)
    \/ \E parts \in StoreSynCmds : t_syn(1, parts)

StoreSpec == StoreInit /\ [][StoreNext]_vars

---------------------------------------------------------------------------
(* Presence between two Sessions (PresenceSpec): connection 1 is a@x,
   connection 2 is b@x, both authenticated; the store holds any part of
   their reverse and block lists; each changes its presence at will.       *)

PresenceRows ==
    << [owner |-> "a@x", peer |-> "b@x", nickname |-> "B", list |-> "RL"],
       [owner |-> "a@x", peer |-> "b@x", nickname |-> "B", list |-> "BL"],
       [owner |-> "b@x", peer |-> "a@x", nickname |-> "A", list |-> "RL"],
       [owner |-> "b@x", peer |-> "a@x", nickname |-> "A", list |-> "BL"] >>

PresenceStores ==
    {SelectSeq(PresenceRows, LAMBDA r : r \in S) : S \in SUBSET Range(PresenceRows)}

PresenceCmds == {<<"CHG", "3", s, "0">> : s \in StatusSet}

PresenceInit ==
    /\ server \in {"async", "threaded"}
    /\ contacts \in PresenceStores
    /\ last = NoEvent
    /\ wrote = <<>>
    /\ h = [c \in Conns |->
              IF server = "async" /\ c = 1 THEN AuthedHandler
              ELSE IF server = "async" /\ c = 2
              THEN [AuthedHandler EXCEPT !.email = "b@x", !.client_id = 2]
              ELSE NoHandler]
    /\ clients = IF server = "async"
                 THEN << [id |-> 1, email |-> "a@x", writer |-> 1, status |-> "NLN"],
                         [id |-> 2, email |-> "b@x", writer |-> 2, status |-> "NLN"] >>
                 ELSE <<>>
    /\ email_to_client = IF server = "async"
                         THEN With(With(<<>>, "a@x", 1), "b@x", 2) ELSE <<>>
    /\ next_client_id = IF server = "async" THEN 3 ELSE 1
    /\ tclients = IF server = "threaded"
                  THEN << AuthedClientInfo,
                          [AuthedClientInfo EXCEPT !.email = "b@x",
                                                   !.username = "b@x"] >>
                  ELSE <<>>
    /\ client_counter = IF server = "threaded" THEN 3 ELSE 1
    /\ FrameOff
    /\ pre = NoMark
    /\ attempts = [c \in Conns |-> 0]
    /\ tc = NoClient
    /\ threads = NoThreads

PresenceNext ==
    \/ Drain
    \/ \E c \in 1..2, parts \in PresenceCmds : a_chg(c, parts)
    \/ \E id \in 1..2, parts \in PresenceCmds : t_chg(id, parts)

PresenceSpec == PresenceInit /\ [][PresenceNext]_vars

---------------------------------------------------------------------------
(* The test client against the server (LiveSpec): tests/test_client.py
   connects, sends VER, CVR, the two USR lines, SYN and CHG, and after each
   command waits in readline() for one line.  The server turns are weakly
   fair: a handler that has a command to read runs.                         *)

ScriptLen == 6          \* the commands of authenticate, sync_contacts, change_status

(* the k-th command the client sends; its transaction id counts from 1 and
   the phase-2 hash answers the challenge the client has just read *)
ScriptCmd(k) ==
    LET t == DecStr(k)
        nonce == IF Len(tc.line) = 5 THEN tc.line[5] ELSE ""
    IN CASE k = 1 -> <<"VER", t, "MSNP8">>
         [] k = 2 -> <<"CVR", t>> \o CvrArgs \o <<tc.who>>
         [] k = 3 -> IF server = "async" THEN <<"USR", t, "I", tc.who>>
                     ELSE <<"USR", t, "MD5", tc.who>>
         [] k = 4 -> IF server = "async" THEN <<"USR", t, "S", "dummy_hash">>
                     ELSE <<"USR", t, "MD5", tc.who, Digest(tc.who, nonce)>>
         [] k = 5 -> <<"SYN", t, "0", "0">>
         [] k = 6 -> <<"CHG", t, tc.status, "0">>

LiveInit ==
    /\ server \in {"async", "threaded"}
    /\ FrameSession(FALSE)
    /\ FrameOff
    /\ pre = NoMark
    /\ attempts = [c \in Conns |-> 0]
    /\ tc \in {[NoClient EXCEPT !.who = e, !.status = s] :
                  e \in Emails, s \in StatusSet}
    /\ threads = NoThreads

(* send_command: the command goes out, the client enters read_response *)
c_send ==
    /\ ~tc.waiting /\ tc.pc < ScriptLen
    /\ tc' = [tc EXCEPT !.pc = @ + 1,
                        !.inflight = Append(@, ScriptCmd(tc.pc + 1)),
                        !.waiting = TRUE]
    /\ UNCHANGED <<server, pre, attempts, threads, sessVars, obsVars, frameVars>>

(* read_response: readline returns the next line the server wrote *)
c_read ==
    /\ tc.waiting /\ tc.inbox # <<>>
    /\ tc' = [tc EXCEPT !.line = Head(tc.inbox), !.inbox = Tail(@),
                        !.waiting = FALSE]
    /\ UNCHANGED <<server, pre, attempts, threads, sessVars, obsVars, frameVars>>

(* what the client has to read after the server's turn *)
Delivered == [tc EXCEPT !.inflight = Tail(@),
                        !.inbox = @ \o LinesTo(1, wrote')]

(* one turn of handle_connection's loop on the command in flight *)
a_turn ==
    /\ server = "async" /\ h[1].st = "open" /\ tc.inflight # <<>>
    /\ process_command(1, Head(tc.inflight))
    /\ last' = Event("cmd", 1, Head(tc.inflight))
    /\ tc' = Delivered
    /\ UNCHANGED <<server, pre, attempts, threads, thrVars, frameVars>>

(* one turn of handle_client's loop on the command in flight *)
t_turn ==
    /\ server = "threaded" /\ 1 \in DOMAIN tclients
    /\ tclients[1].socket = "open" /\ tc.inflight # <<>>
    /\ process_msnp_command(1, Head(tc.inflight), <<>>)
    /\ last' = Event("cmd", 1, Head(tc.inflight))
    /\ tc' = Delivered
    /\ UNCHANGED <<server, pre, attempts, threads, asyncVars, client_counter, frameVars>>

LiveNext == c_send \/ c_read \/ a_turn \/ t_turn

LiveSpec ==
    /\ LiveInit /\ [][LiveNext]_vars
    /\ WF_vars(c_send) /\ WF_vars(c_read)
    /\ WF_vars(a_turn) /\ WF_vars(t_turn)

---------------------------------------------------------------------------
(* Presence tokens (TokenSpec): one connection authenticates and sends CHG
   with a presence state, with FLN and with a token that is no state.       *)

TokenCmds == {<<"CHG", "3", s, "0">> : s \in {"NLN", "IDL", "FLN", "XYZ"}}

TokenNext ==
    \/ Drain
    \/ a_accept(1)
    \/ a_eof(1)
    \/ \E parts \in AsyncShared : a_usr(1, parts)
    \/ \E parts \in TokenCmds : a_chg(1, parts)
    \/ client_counter = 1 /\ t_accept
    \/ t_eof(1)
    \/ \E parts \in ThreadedShared : t_usr(1, parts)
    \/ \E parts \in TokenCmds : t_chg(1, parts)

TokenSpec == Init /\ [][TokenNext]_vars

---------------------------------------------------------------------------
(* LST, and a connection that never authenticates (GuestSpec): it may name
   an identity in a phase-1 USR and then sends ADD, REM and LST.            *)

(* handle_lst: the rows of self.email, no other reply *)
handle_lst(c, parts) ==
    LET rows == get_user_contacts(h[c].email)
    IN /\ wrote' = [i \in 1..Len(rows) |->
                      Wr(c, <<"LST", rows[i].peer, rows[i].nickname, rows[i].list>>)]
       /\ UNCHANGED <<h, clients, email_to_client, next_client_id, contacts>>

(* handle_lst_command: pass *)
handle_lst_command(id, parts) ==
    /\ wrote' = <<>>
    /\ UNCHANGED <<tclients, contacts>>

a_lst(c, parts) ==
    a_open(c) /\ Dispatch(parts) = "LST" /\ handle_lst(c, parts) /\ a_frame(c, parts)
t_lst(id, parts) ==
    /\ t_open(id) /\ TDispatch(parts) = "LST"
    /\ handle_lst_command(id, parts) /\ t_frame(id, parts)

GuestCmds ==
    {<<"USR", "1", "I", "a@x">>, <<"USR", "1", "MD5", "a@x">>, <<"LST", "8">>}

GuestInit ==
    /\ server \in {"async", "threaded"}
    /\ h = [c \in Conns |-> NoHandler]
    /\ clients = <<>>
    /\ email_to_client = <<>>
    /\ next_client_id = 1
    /\ tclients = <<>>
    /\ client_counter = 1
    /\ contacts = SubSeq(InitContacts, 1, 1)
    /\ last = NoEvent
    /\ wrote = <<>>
    /\ FrameOff
    /\ pre = NoMark
    /\ attempts = [c \in Conns |-> 0]
    /\ tc = NoClient
    /\ threads = NoThreads

GuestNext ==
    \/ Drain
    \/ a_accept(1)
    \/ \E parts \in GuestCmds : a_usr(1, parts)
    \/ \E parts \in AddCmds : a_add(1, parts)
    \/ \E parts \in RemCmds : a_rem(1, parts)
    \/ \E parts \in GuestCmds : a_lst(1, parts)
    \/ client_counter = 1 /\ t_accept
    \/ \E parts \in GuestCmds : t_usr(1, parts)
    \/ \E parts \in AddCmds : t_add(1, parts)
    \/ \E parts \in RemCmds : t_rem(1, parts)
    \/ \E parts \in GuestCmds : t_lst(1, parts)

GuestSpec == GuestInit /\ [][GuestNext]_vars

---------------------------------------------------------------------------
(* A store operation that fails (FailSpec): sqlite3 raises while the handler
   of an ADD, REM, SYN or LST is in the store (the database file cannot be
   opened, or is locked).                                                   *)

(* the async handler of `parts` on connection c calls the DatabaseManager *)
CallsStore(c, parts) ==
    CASE Dispatch(parts) = "ADD" -> Len(parts) >= 5
      [] Dispatch(parts) = "REM" -> Len(parts) >= 4
      [] Dispatch(parts) = "LST" -> TRUE
      [] Dispatch(parts) = "SYN" -> h[c].authenticated
      [] OTHER -> FALSE

(* DatabaseManager catches nothing but IntegrityError: the error leaves the
   handler, handle_connection logs it and breaks, handle_client's finally
   disconnects the client and closes the writer; nothing is written *)
a_store_fails(c, parts) ==
    /\ a_open(c) /\ CallsStore(c, parts)
    /\ disconnect_client(c)
    /\ h' = [h EXCEPT ![c] = ClosedHandler]
    /\ wrote' = <<>>
    /\ last' = Event("fail", c, parts)
    /\ UNCHANGED <<next_client_id, contacts>>
    /\ UNCHANGED <<server, pre, attempts, tc, threads, thrVars, frameVars>>

(* the threaded handler of `parts` on connection id calls the store *)
TCallsStore(id, parts) ==
    /\ tclients[id].authenticated
    /\ CASE TDispatch(parts) = "ADD" -> Len(parts) >= 5
         [] TDispatch(parts) = "REM" -> Len(parts) >= 4
         [] TDispatch(parts) = "SYN" -> TRUE
         [] OTHER -> FALSE

(* add_contact, remove_contact and get_user_contacts of the threaded server
   catch every exception, log it and return (an empty list for the
   contacts); the handler goes on to its reply *)
t_store_fails(id, parts) ==
    /\ t_open(id) /\ TCallsStore(id, parts)
    /\ wrote' = CASE TDispatch(parts) = "ADD" ->
                       t_send(id, <<"ADD", parts[2], parts[3], parts[4], parts[5]>>)
                  [] TDispatch(parts) = "REM" ->
                       t_send(id, <<"REM", parts[2], parts[3], parts[4]>>)
                  [] TDispatch(parts) = "SYN" ->
                       t_send(id, <<"SYN", IF Len(parts) > 1 THEN parts[2] ELSE "0",
                                    "0", "0">>)
    /\ last' = Event("fail", id, parts)
    /\ UNCHANGED <<tclients, contacts>>
    /\ UNCHANGED <<server, pre, attempts, tc, threads, asyncVars, client_counter, frameVars>>

FailCmds == AddCmds \cup RemCmds \cup StoreSynCmds \cup {<<"LST", "8">>}

FailNext ==
    \/ StoreNext
    \/ \E parts \in FailCmds : a_lst(1, parts)
    \/ \E parts \in FailCmds : a_store_fails(1, parts)
    \/ \E parts \in FailCmds : t_store_fails(1, parts)

FailSpec == StoreInit /\ [][FailNext]_vars

---------------------------------------------------------------------------
(* The threads of the threaded server (ThreadSpec): one thread per
   connection runs handle_client; the threads share self.clients and the
   sockets and take no lock.  A step is one dictionary operation or one end
   of a socket.send(): a thread that is in send() stays there until x_sent.
   Connections 1 and 2 are authenticated; further connections arrive and
   connections go while presence changes are broadcast.                     *)

Threads == 1..(MaxConns + 1)

ThreadCmds == {<<"CHG", "3", s>> : s \in {"BSY", "IDL"}}

ThreadInit ==
    /\ server = "threaded"
    /\ h = [c \in Conns |-> NoHandler]
    /\ clients = <<>>
    /\ email_to_client = <<>>
    /\ next_client_id = 1
    /\ tclients = << AuthedClientInfo,
                     [AuthedClientInfo EXCEPT !.email = "b@x", !.username = "b@x"] >>
    /\ client_counter = 3
    /\ contacts = InitContacts
    /\ last = NoEvent
    /\ wrote = <<>>
    /\ FrameOff
    /\ pre = NoMark
    /\ attempts = [c \in Conns |-> 0]
    /\ tc = NoClient
    /\ threads = NoThreads

x_frame ==
    UNCHANGED <<server, pre, attempts, tc, asyncVars, contacts, frameVars>>

(* start_server accepts; the new thread puts its client_info into
   self.clients *)
x_accept ==
    /\ client_counter \in Threads
    /\ tclients' = With(tclients, client_counter, NewClientInfo)
    /\ client_counter' = client_counter + 1
    /\ wrote' = <<>>
    /\ last' = Event("accept", client_counter, <<>>)
    /\ UNCHANGED threads
    /\ x_frame

(* recv returns b'' in a thread that is in no handler: cleanup_client *)
x_eof(id) ==
    /\ id \in DOMAIN tclients /\ threads[id].pc = "idle"
    /\ tclients' = cleanup_client(id)
    /\ wrote' = <<>>
    /\ last' = Event("eof", id, <<>>)
    /\ UNCHANGED <<threads, client_counter>>
    /\ x_frame

(* handle_chg_command up to its send_response: the status is set and the
   thread enters send() of the CHG reply on its own socket *)
x_chg(id, parts) ==
    /\ id \in DOMAIN tclients /\ threads[id].pc = "idle"
    /\ tclients[id].socket = "open" /\ tclients[id].authenticated
    /\ TDispatch(parts) = "CHG" /\ Len(parts) >= 3
    /\ tclients' = [tclients EXCEPT ![id].status = parts[3]]
    /\ threads' = [threads EXCEPT ![id] =
                     [IdleThread EXCEPT !.pc = "reply", !.to = id,
                                        !.line = <<"CHG", parts[2], parts[3]>>]]
    /\ wrote' = <<>>
    /\ last' = Event("cmd", id, parts)
    /\ UNCHANGED client_counter
    /\ x_frame

(* the send() the thread is in returns (or raises, which send_response and
   the broadcast loop swallow).  After the CHG reply broadcast_status_change
   builds its message and starts to iterate self.clients.items(); after a
   peer's line the loop goes on; after the 911 the handler is over *)
x_sent(id) ==
    LET t == threads[id]
        delivered == t_send(t.to, t.line)
    IN /\ t.pc \in {"reply", "peer", "error"}
       /\ wrote' = delivered
       /\ threads' = [threads EXCEPT ![id] =
             CASE t.pc = "reply" ->
                    [t EXCEPT !.pc = "iter", !.to = 0, !.pos = 0,
                              !.keys = DOMAIN tclients,
                              !.line = IF id \in DOMAIN tclients
                                       THEN <<"NLN", tclients[id].status,
                                              tclients[id].email,
                                              get_display_name(tclients[id].email)>>
                                       ELSE <<>>]
               [] t.pc = "peer" ->
                    [t EXCEPT !.pc = "iter",
                              !.reached = IF delivered # <<>> THEN @ \cup {t.to} ELSE @]
               [] t.pc = "error" -> [IdleThread EXCEPT !.reached = t.reached,
                                                       !.keys = t.keys]]
       /\ last' = Event("sent", id, <<>>)
       /\ UNCHANGED <<tclients, client_counter>>
       /\ x_frame

(* one step of `for other_client_id, other_client in self.clients.items()`.
   The iterator raises RuntimeError when the size of the dictionary is not
   the size it started with; when keys went and came and the size is the
   same it may raise or go on.  The RuntimeError leaves the broadcast and
   the handler; process_msnp_command catches it and sends 911 *)
x_next(id) ==
    LET t    == threads[id]
        live == DOMAIN tclients
        rest == {k \in live : k > t.pos}
    IN /\ t.pc = "iter"
       /\ \E raised \in IF Cardinality(live) # Cardinality(t.keys) THEN {TRUE}
                        ELSE IF live # t.keys THEN {TRUE, FALSE} ELSE {FALSE} :
            threads' = [threads EXCEPT ![id] =
               IF raised
               THEN [t EXCEPT !.pc = "error", !.to = id, !.line = <<"911">>]
               ELSE IF rest = {}
               THEN [IdleThread EXCEPT !.reached = t.reached, !.keys = t.keys]
               ELSE LET k == Min(rest)
                    IN IF k # id /\ tclients[k].authenticated
                       THEN [t EXCEPT !.pc = "peer", !.to = k, !.pos = k]
                       ELSE [t EXCEPT !.pos = k]]
       /\ wrote' = <<>>
       /\ last' = Event("next", id, <<>>)
       /\ UNCHANGED <<tclients, client_counter>>
       /\ x_frame

ThreadNext ==
    \/ x_accept
    \/ \E id \in Threads : x_eof(id)
    \/ \E id \in Threads, parts \in ThreadCmds : x_chg(id, parts)
    \/ \E id \in Threads : x_sent(id)
    \/ \E id \in Threads : x_next(id)

ThreadSpec == ThreadInit /\ [][ThreadNext]_vars

---------------------------------------------------------------------------
(* What the claims speak of, for whichever server is running. *)

(* the verb of the command the last step processed *)
LastVerb == IF last.ev = "cmd" /\ Len(last.parts) >= 1
            THEN (IF server = "threaded" THEN upper(last.parts[1]) ELSE last.parts[1])
            ELSE None
LastTid  == IF last.ev = "cmd" /\ Len(last.parts) >= 2 THEN last.parts[2] ELSE None

(* the Registry: the connections with a registered (authenticated) Session
   for identity e, given the two client tables *)
RegisteredAs(cl, tcl, e) ==
    {cl[i].writer : i \in {j \in DOMAIN cl : cl[j].email = e}}
      \cup {i \in DOMAIN tcl : tcl[i].authenticated /\ tcl[i].email = e}

(* the number of Registry entries for identity e *)
EntriesFor(e) ==
    Cardinality({i \in DOMAIN clients : clients[i].email = e})
      + Cardinality({i \in DOMAIN tclients :
                        tclients[i].authenticated /\ tclients[i].email = e})

ConnClosed(hh, tcl, c) ==
    IF server = "async" THEN hh[c].st = "closed"
    ELSE c \notin DOMAIN tcl \/ tcl[c].socket = "closed"

VersionOf(c) == IF server = "async" THEN h[c].protocol_version
                ELSE IF c \in DOMAIN tclients THEN tclients[c].version ELSE None

AuthenticatedConn(hh, tcl, c) ==
    IF server = "async" THEN hh[c].authenticated
    ELSE c \in DOMAIN tcl /\ tcl[c].authenticated

IsLine(w, c, line) == \E i \in 1..Len(w) : w[i] = Wr(c, line)

(* C1 (original statement): in every reachable state the Registry holds at
   most one Session per identity. *)
C1_OneSessionPerIdentity ==
    \A e \in Emails : EntriesFor(e) <= 1

(* C2 (original statement): when a connection authenticates as an identity
   that already has a registered Session S', S' is sent OUT OTH, is closed
   and is out of the Registry once the new Session is installed, and the
   new connection receives USR t OK. *)
UsrOkFor(w, c, e) ==
    \E i \in 1..Len(w) : /\ w[i].to = c /\ Len(w[i].line) >= 4
                         /\ w[i].line[1] = "USR" /\ w[i].line[3] = "OK"
                         /\ w[i].line[4] = e

C2_Displacement ==
    [][\A c \in Conns, e \in Emails :
         UsrOkFor(wrote', c, e) =>
            \A s \in RegisteredAs(clients, tclients, e) \ {c} :
               /\ IsLine(wrote', s, <<"OUT", "OTH">>)
               /\ ConnClosed(h', tclients', s)
               /\ s \notin RegisteredAs(clients', tclients', e)]_vars

(* C3 (original statement): a phase-2 USR authenticates the Session only if
   the supplied hash equals, case-insensitively, H(H(credential) || nonce)
   for a nonce the server issued; for every other hash the reply is 911 t
   and the Session is not admitted.  The async handler keeps no nonce, so
   any nonce the server can issue is taken for it; the threaded server's
   issued nonce is client_info['challenge']. *)
IssuedNonces(c) ==
    IF server = "async" THEN Nonces
    ELSE IF c \in DOMAIN tclients /\ tclients[c].challenge # None
         THEN {tclients[c].challenge} ELSE {}

Phase2(parts) ==
    IF server = "async" THEN Len(parts) = 4 /\ parts[1] = "USR" /\ parts[3] = "S"
    ELSE Len(parts) = 5 /\ upper(parts[1]) = "USR" /\ parts[3] = "MD5"

Phase2Identity(c, parts) == IF server = "async" THEN h[c].email ELSE parts[4]
Phase2Hash(parts) == parts[Len(parts)]

HashMatches(c, parts) ==
    /\ Phase2Identity(c, parts) \in Registered
    /\ \E n \in IssuedNonces(c) :
          lower(Phase2Hash(parts)) = lower(Digest(Phase2Identity(c, parts), n))

C3_AuthOnlyOnMatch ==
    [][\A c \in Conns :
         (last'.ev = "cmd" /\ last'.conn = c /\ Phase2(last'.parts) /\ Idle) =>
            IF HashMatches(c, last'.parts)
            THEN TRUE
            ELSE /\ wrote' = <<Wr(c, <<"911", last'.parts[2]>>)>>
                 /\ ~AuthenticatedConn(h', tclients', c)
                 /\ clients' = clients]_vars

---------------------------------------------------------------------------
(* VER *)

(* the n of a dialect tag MSNP<n> *)
VerNo(tag) == CHOOSE n \in 0..99 : Dialect(n) = tag

Supported == IF server = "async" THEN Range(supported_versions)
             ELSE Range(t_supported_versions)

Offered(parts) == IF Len(parts) > 2 THEN Range(SubSeq(parts, 3, Len(parts))) ELSE {}

(* the greatest dialect of a non-empty set of tags *)
Greatest(S) == CHOOSE w \in S : \A v \in S : VerNo(v) <= VerNo(w)

(* C4: for every VER whose offer intersects the supported set, the reply is
   VER t w with w the greatest dialect of the intersection, and w is the
   Session's protocol version. *)
C4_VerGreatest ==
    (LastVerb = "VER" /\ Offered(last.parts) \cap Supported # {}) =>
        LET w == Greatest(Offered(last.parts) \cap Supported)
        IN /\ wrote = <<Wr(last.conn, <<"VER", last.parts[2], w>>)>>
           /\ VersionOf(last.conn) = w

C4_Witness ==
    /\ LastVerb = "VER"
    /\ Cardinality(Offered(last.parts) \cap Supported) = 2
    /\ VerNo(last.parts[3]) < VerNo(last.parts[4])
    /\ VersionOf(last.conn) = last.parts[4]

(* C5 (original statement): if no offered dialect is supported (an empty
   offer included), the reply is VER t 0, no protocol version is recorded
   and the connection is closed. *)
C5_VerNoOverlap ==
    (LastVerb = "VER" /\ LastTid # None /\ Offered(last.parts) \cap Supported = {}) =>
        /\ wrote = <<Wr(last.conn, <<"VER", last.parts[2], "0">>)>>
        /\ VersionOf(last.conn) = None
        /\ ConnClosed(h, tclients, last.conn)

---------------------------------------------------------------------------
(* C6 (original statement): before authentication only the expected command
   is served; any other command is answered 715 t and changes nothing,
   except OUT, and PNG after VER.  The servers keep no protocol state beyond
   the version, the challenge and the authenticated flag, so the statement
   is made for what they keep: in GREETED (no version yet) every verb but
   VER and OUT, and in every unauthenticated state every verb but VER, CVR,
   USR, OUT and PNG, is answered 715 t and changes no state. *)
Greeted(c) ==
    IF server = "async" THEN h[c].st = "open" /\ h[c].protocol_version = None
                             /\ h[c].email = None /\ ~h[c].authenticated
    ELSE c \in DOMAIN tclients /\ tclients[c] = NewClientInfo

Unauthenticated(c) ==
    IF server = "async" THEN h[c].st = "open" /\ ~h[c].authenticated
    ELSE c \in DOMAIN tclients /\ ~tclients[c].authenticated
           /\ tclients[c].socket = "open"

VerbOf(parts) == IF server = "threaded" THEN upper(parts[1]) ELSE parts[1]

C6_StrictHandshake ==
    [][\A c \in Conns :
         (Idle /\ last'.ev = "cmd" /\ last'.conn = c /\ Len(last'.parts) >= 2
            /\ \/ Greeted(c) /\ VerbOf(last'.parts) \notin {"VER", "OUT"}
               \/ Unauthenticated(c)
                    /\ VerbOf(last'.parts) \notin {"VER", "CVR", "USR", "OUT", "PNG"})
         => /\ wrote' = <<Wr(c, <<"715", last'.parts[2]>>)>>
            /\ sessVars' = sessVars]_vars

---------------------------------------------------------------------------
(* C7 (original statement): the reply to a transaction is written before
   any line the transaction causes as a side-effect: USR t OK before the
   self-presence line, CHG t before the presence lines fanned out. *)
C7_ReplyFirst ==
    (LastVerb \in {"USR", "CHG"} /\ LastTid # None /\ Len(wrote) > 1) =>
        /\ wrote[1].to = last.conn
        /\ wrote[1].line[1] = LastVerb
        /\ wrote[1].line[2] = LastTid

(* C8 (original statement): every line the server emits that carries a
   transaction id carries an id the client sent: here, the id of the
   command the step processed (no client of the model ever sends 0). *)
TidVerbs == {"VER", "CVR", "USR", "SYN", "CHG", "ADD", "REM", "ACK", "MSG",
             "911", "715", "501", "500"}

CarriesTid(line) == Len(line) >= 2 /\ line[1] \in TidVerbs

C8_TidWasSent ==
    \A i \in 1..Len(wrote) :
        (wrote[i].to = last.conn /\ CarriesTid(wrote[i].line)) =>
            wrote[i].line[2] = LastTid


---------------------------------------------------------------------------
(* Framing *)

(* everything the client sent has arrived and the reader loop has ended or
   waits for more bytes *)
ServerIdle ==
    /\ pending = <<>>
    /\ \/ fpc = "done"
       \/ server = "async" /\ fpc = "readline" /\ ~HasLF(buf) /\ ~eof
       \/ server = "async" /\ fpc = "payload" /\ buf = <<>> /\ ~eof
            /\ int(fcmd[4]) > 0
       \/ server = "threaded" /\ fpc = "readline" /\ buf = <<>> /\ ~eof
            /\ 1 \in DOMAIN tclients /\ tclients[1].socket = "open"

(* C9 (original statement): for the stream VER 1 MSNP8 CRLF OUT CRLF on a
   new connection, however it is cut into segments, the server's output is
   exactly VER 1 MSNP8 CRLF OUT CRLF followed by end-of-stream. *)
C9_VerOutExact ==
    (sent = VerOut /\ ServerIdle) =>
        /\ fout = "VER 1 MSNP8\r\nOUT\r\n"
        /\ fpc = "done"

(* C10 (original statement): for a MSG with declared length L the receiver
   takes exactly L bytes as the payload, however the bytes are cut into
   segments, and parses the next command from the byte after them. *)
C10_PayloadExact ==
    (sent = MsgPng /\ ServerIdle /\ ~eof /\ AuthenticatedConn(h, tclients, 1)) =>
        /\ fpayloads = <<"hello">>
        /\ flines = <<"MSG 3 U 5", "PNG 4">>


---------------------------------------------------------------------------
(* Presence lines *)

(* the user a presence line is about, None for any other line.  The Router
   writes <state> NLN <user> <display> 0, the threaded server
   NLN <state> <user> <display>. *)
PresenceUser(line) ==
    IF Len(line) = 4 /\ line[1] = "NLN" THEN line[3]
    ELSE IF Len(line) = 5 /\ line[2] = "NLN" THEN line[3]
    ELSE None

(* the state a presence line reports *)
PresenceState(line) ==
    IF Len(line) = 4 /\ line[1] = "NLN" THEN line[2]
    ELSE IF Len(line) = 5 /\ line[2] = "NLN" THEN line[1]
    ELSE None

(* the identity of the Session on connection c *)
IdentityOf(hh, tcl, c) ==
    IF server = "async" THEN hh[c].email
    ELSE IF c \in DOMAIN tcl THEN tcl[c].email ELSE None

(* C11 (original statement): no Session is sent a presence line about a
   third party U unless an authenticated Session for U is in the Registry
   at the moment of the transition that is fanned out, a CHG that arrives
   after the connection's own OUT included. *)
C11_PresenceOnlyOfRegistered ==
    [][\A i \in 1..Len(wrote') :
         LET U == PresenceUser(wrote'[i].line)
         IN (U # None /\ U # IdentityOf(h, tclients, wrote'[i].to)) =>
               \/ RegisteredAs(clients, tclients, U) # {}
               \/ RegisteredAs(clients', tclients', U) # {}]_vars


---------------------------------------------------------------------------
(* The contact store *)

(* (owner, list, peer) is a row of table s *)
HasEntry(s, key) ==
    \E i \in 1..Len(s) : <<s[i].owner, s[i].list, s[i].peer>> = key

(* C12 (original statement): an ADD of (list, peer) followed by a REM of
   the same (list, peer) leaves the contact store identical to its state
   before the ADD, for every pre-state, the entry already present or not. *)
C12_AddRemIdentity ==
    pre.stage = "removed" => contacts = pre.store

(* C12 (amended): an ADD of (list, peer) followed by a REM of the same
   (list, peer) leaves the contact store identical to its state before the
   ADD, for every pre-state that does not hold the entry. *)
C12_AddRemIdentityWhenAbsent ==
    (pre.stage = "removed" /\ ~HasEntry(pre.store, pre.key)) =>
        contacts = pre.store

C12_Witness ==
    /\ pre.stage = "removed" /\ ~HasEntry(pre.store, pre.key)
    /\ Len(pre.store) = MaxRows
    /\ HasEntry(pre.mid, pre.key)
    /\ LastVerb = "REM"


---------------------------------------------------------------------------
(* Initial presence *)

(* the presence recorded for the Session on connection c: the status of
   its entry in the clients table, None without an authenticated entry *)
PresenceOf(hh, cl, tcl, c) ==
    IF server = "async"
    THEN (IF hh[c].authenticated /\ hh[c].client_id \in DOMAIN cl
          THEN cl[hh[c].client_id].status ELSE None)
    ELSE (IF c \in DOMAIN tcl /\ tcl[c].authenticated
          THEN tcl[c].status ELSE None)

(* the step wrote USR t OK to connection c *)
GotUsrOk(w, c) == \E e \in Emails : UsrOkFor(w, c, e)

(* C13: from the step in which a Session receives USR t OK until its first
   CHG the presence recorded for it is NLN: the USR OK step records NLN
   and every presence line it writes about the Session reports NLN, and no
   step other than a CHG of the Session itself moves the record off NLN. *)
C13_InitialPresenceNLN ==
    [][\A c \in Conns :
         LET before == PresenceOf(h, clients, tclients, c)
             after  == PresenceOf(h', clients', tclients', c)
             ownChg == last'.ev = "cmd" /\ last'.conn = c /\ LastVerb' = "CHG"
         IN /\ GotUsrOk(wrote', c) =>
                 /\ after = "NLN"
                 /\ \A i \in 1..Len(wrote') :
                      PresenceUser(wrote'[i].line) = IdentityOf(h', tclients', c)
                         => PresenceState(wrote'[i].line) = "NLN"
            /\ (before = "NLN" /\ after # None /\ ~ownChg) => after = "NLN"]_vars

(* a Session that has not sent CHG is recorded NLN while its peer, on the
   other connection, has just changed to BSY *)
C13_Witness ==
    \E c, d \in Conns :
        /\ c # d
        /\ PresenceOf(h, clients, tclients, c) = "NLN"
        /\ PresenceOf(h, clients, tclients, d) = "BSY"
        /\ last.ev = "cmd" /\ last.conn = d /\ LastVerb = "CHG"


---------------------------------------------------------------------------
(* SYN and its LST lines *)

(* line i of the last step is the header SYN t N 0 of the SYN it answers *)
IsSynHeader(i) ==
    /\ wrote[i].to = last.conn
    /\ Len(wrote[i].line) = 4
    /\ wrote[i].line[1] = "SYN" /\ wrote[i].line[2] = LastTid
    /\ wrote[i].line[4] = "0"

(* line i of the last step is an LST line *)
IsLst(i) == Len(wrote[i].line) >= 1 /\ wrote[i].line[1] = "LST"

(* C14 (original statement): for every SYN t from an authenticated Session
   the first line written in response is the header SYN t N 0, and every
   LST line of the synchronization is written after the header. *)
C14_SynHeaderFirst ==
    (LastVerb = "SYN" /\ LastTid # None
       /\ AuthenticatedConn(h, tclients, last.conn)) =>
        /\ wrote # <<>> /\ IsSynHeader(1)
        /\ \A i \in 1..Len(wrote) :
             IsLst(i) => \E j \in 1..(i - 1) : IsSynHeader(j)


(* the rank of a peer identity in ascending order *)
PeerRank(p) == CHOOSE k \in 1..Len(EmailOrder) : EmailOrder[k] = p

(* the bit of a list: FL=1, AL=2, BL=4, RL=8 *)
ListBit(l) == CASE l = "FL" -> 1 [] l = "AL" -> 2 [] l = "BL" -> 4
                [] l = "RL" -> 8 [] OTHER -> 0

(* the lists on which `peer` appears for `owner` in the store, as a bitmask *)
MaskFor(owner, peer) ==
    LET on(l) == \E i \in 1..Len(contacts) :
                    /\ contacts[i].owner = owner /\ contacts[i].peer = peer
                    /\ contacts[i].list = l
        bit(l) == IF on(l) THEN ListBit(l) ELSE 0
    IN bit("FL") + bit("AL") + bit("BL") + bit("RL")

(* the number a list field of an LST line stands for: a decimal bitmask, or
   the bit of a list tag *)
FieldMask(tok) ==
    IF \E n \in 1..15 : tok = DecStr(n)
    THEN CHOOSE n \in 1..15 : tok = DecStr(n)
    ELSE ListBit(tok)

(* the last step answered the SYN of an authenticated Session *)
SynAnswered ==
    LastVerb = "SYN" /\ AuthenticatedConn(h, tclients, last.conn)

(* C15 (original statement): the LST lines emitted for one SYN are ordered
   by peer identity ascending and, for equal peers, by list bitmask
   ascending, whatever order the store returns the contacts in. *)
C15_LstSorted ==
    SynAnswered =>
        \A i, j \in 1..Len(wrote) :
            (i < j /\ IsLst(i) /\ IsLst(j)) =>
                \/ PeerRank(wrote[i].line[2]) < PeerRank(wrote[j].line[2])
                \/ /\ wrote[i].line[2] = wrote[j].line[2]
                   /\ FieldMask(wrote[i].line[4]) <= FieldMask(wrote[j].line[4])

(* C16 (original statement): each LST line emitted for SYN carries a
   numeric list bitmask equal to the bitwise OR of FL=1, AL=2, BL=4, RL=8
   over all lists on which that peer appears for the owner. *)
C16_LstBitmask ==
    SynAnswered =>
        \A i \in 1..Len(wrote) :
            IsLst(i) =>
                /\ Len(wrote[i].line) >= 4
                /\ wrote[i].line[4] =
                     DecStr(MaskFor(IdentityOf(h, tclients, last.conn),
                                    wrote[i].line[2]))


---------------------------------------------------------------------------
(* Fan-out of a presence change *)

(* C17 (original statement): a presence line about user U caused by U's
   CHG is delivered to a Session P only if U has P on its RL and U's BL
   does not contain P; no line is delivered to any other Session. *)
C17_FanOutOnlyToReverseList ==
    LastVerb = "CHG" =>
        LET U == IdentityOf(h, tclients, last.conn)
        IN \A i \in 1..Len(wrote) :
             (wrote[i].to # last.conn /\ PresenceUser(wrote[i].line) = U) =>
                 LET P == IdentityOf(h, tclients, wrote[i].to)
                 IN /\ HasEntry(contacts, <<U, "RL", P>>)
                    /\ ~HasEntry(contacts, <<U, "BL", P>>)


(* C18 (original statement): a CHG to HDN never causes a peer Session to
   receive a presence line reporting state HDN for that user; while the
   user is hidden peers are told only that the user is offline (FLN), and
   a CHG out of HDN is reported to peers as NLN. *)
C18_HiddenNeverShown ==
    [][(last'.ev = "cmd" /\ LastVerb' = "CHG") =>
         LET c      == last'.conn
             U      == IdentityOf(h', tclients', c)
             before == PresenceOf(h, clients, tclients, c)
             after  == PresenceOf(h', clients', tclients', c)
         IN \A i \in 1..Len(wrote') :
              (wrote'[i].to # c /\ PresenceUser(wrote'[i].line) = U) =>
                  LET state == PresenceState(wrote'[i].line)
                  IN /\ state # "HDN"
                     /\ after = "HDN" => state = "FLN"
                     /\ (before = "HDN" /\ after # "HDN") => state = "NLN"]_vars


---------------------------------------------------------------------------
(* Failed transactions *)

(* the numeric codes a failed transaction is answered with *)
ErrorCodes == {"201", "205", "207", "208", "500", "501", "715", "911", "913", "928"}

(* the command `parts` with a transaction id, arriving on connection c in
   the current state, is a transaction that fails: a state-bound verb from
   a Session that is not authenticated, a USR or CHG that lacks a
   parameter, or a credential that does not match *)
Fails(c, parts) ==
    /\ Len(parts) >= 2
    /\ \/ VerbOf(parts) \in {"SYN", "CHG"} /\ ~AuthenticatedConn(h, tclients, c)
       \/ VerbOf(parts) = "USR" /\ Len(parts) < 4
       \/ VerbOf(parts) = "CHG" /\ Len(parts) < 3
       \/ Phase2(parts) /\ ~HashMatches(c, parts)

(* C19 (original statement): every transaction that fails produces exactly
   one reply line of the form <code> t carrying the transaction id t the
   client sent, produces no success line for t, and leaves session,
   Registry and store state unchanged. *)
C19_FailureOneCodeLine ==
    [][(last'.ev = "cmd" /\ Idle /\ Fails(last'.conn, last'.parts)) =>
         /\ Len(wrote') = 1
         /\ wrote'[1].to = last'.conn
         /\ Len(wrote'[1].line) = 2
         /\ wrote'[1].line[1] \in ErrorCodes
         /\ wrote'[1].line[2] = last'.parts[2]
         /\ sessVars' = sessVars]_vars


---------------------------------------------------------------------------
(* OUT *)

(* C20 (original statement): on an OUT line, which carries no transaction
   id, received in any state, the server echoes OUT, removes the Session
   from the Registry and closes the connection, so that no command
   received on the connection after OUT is processed (a closed connection
   takes no further step). *)
C20_OutEndsSession ==
    (last.ev = "cmd" /\ last.parts = <<"OUT">>) =>
        /\ wrote = <<Wr(last.conn, <<"OUT">>)>>
        /\ \A e \in Emails : last.conn \notin RegisteredAs(clients, tclients, e)
        /\ ConnClosed(h, tclients, last.conn)


---------------------------------------------------------------------------
(* Removal from the Registry *)

(* the client entries that belong to the Session on connection c *)
EntriesOf(cl, c) == {i \in DOMAIN cl : cl[i].writer = c}

(* the last step removed the Session on connection c from the Registry:
   disconnect_client ran for it (OUT, or the cleanup at the end of the
   connection), or cleanup_client did *)
Removes(c) ==
    /\ last.conn = c
    /\ IF server = "async"
       THEN \/ last.ev = "eof"
            \/ last.ev = "cmd" /\ Dispatch(last.parts) = "OUT"
       ELSE last.ev \in {"eof", "cleanup"}

(* C21 (original statement): removing a Session from the Registry deletes
   both its client entry and its identity->Session mapping, and is
   idempotent: removing the same Session a second time (as when OUT is
   followed by connection cleanup) changes nothing. *)
C21_RemovalIdempotent ==
    [][\A c \in Conns :
         Removes(c)' =>
            /\ EntriesOf(clients', c) = {}
            /\ c \notin DOMAIN tclients'
            /\ \A e \in DOMAIN email_to_client' :
                  email_to_client'[e] \notin EntriesOf(clients, c)
            /\ (EntriesOf(clients, c) = {} /\ c \notin DOMAIN tclients) =>
                  /\ clients' = clients
                  /\ email_to_client' = email_to_client
                  /\ tclients' = tclients]_vars


(* C22 (original statement): in every reachable state every Session
   present in the Registry (the server's table of clients used for lookup
   and fan-out) is authenticated and has a non-null identity. *)
C22_RegistryAuthenticated ==
    /\ \A i \in DOMAIN clients :
          /\ clients[i].email # None
          /\ h[clients[i].writer].authenticated
    /\ \A i \in DOMAIN tclients :
          /\ tclients[i].authenticated
          /\ tclients[i].email # None


---------------------------------------------------------------------------
(* Errors while a command is processed *)

(* processing `parts` on connection c raises: the declared length of a MSG
   from an authenticated Session is not a number, int() raises ValueError *)
RaisesOn(c, parts) ==
    /\ Len(parts) >= 4 /\ VerbOf(parts) = "MSG"
    /\ AuthenticatedConn(h, tclients, c)
    /\ int(parts[4]) < 0

(* C23 (original statement): an exception raised while processing a
   command on one connection closes that connection and removes it from
   the Registry, and leaves the Registry entries, identity lookups,
   presence and connection state of every other Session unchanged. *)
C23_ErrorContained ==
    [][(Len(flines') > Len(flines) /\ RaisesOn(last'.conn, last'.parts)) =>
         LET c == last'.conn
         IN /\ ConnClosed(h', tclients', c)
            /\ EntriesOf(clients', c) = {}
            /\ c \notin DOMAIN tclients'
            /\ \A d \in Conns \ {c} :
                  /\ h'[d] = h[d]
                  /\ d \in DOMAIN tclients =>
                        d \in DOMAIN tclients' /\ tclients'[d] = tclients[d]
            /\ \A i \in DOMAIN clients \ EntriesOf(clients, c) :
                  i \in DOMAIN clients' /\ clients'[i] = clients[i]
            /\ \A e \in DOMAIN email_to_client :
                  email_to_client[e] \notin EntriesOf(clients, c) =>
                     /\ e \in DOMAIN email_to_client'
                     /\ email_to_client'[e] = email_to_client[e]]_vars


---------------------------------------------------------------------------
(* The retry limit of the challenge (AuthSpec): one connection sends USR
   lines only, with matching and non-matching hashes; `attempts` counts
   the phase-2 lines whose hash does not match.                            *)

MaxAttempts == 4        \* cap on the failed attempts counted

AuthCmds ==
    IF server = "async"
    THEN {<<"USR", "1", "I", "a@x">>, <<"USR", "2", "S", "dummy_hash">>,
          <<"USR", "2", "S", Digest("a@x", "N1")>>}
    ELSE {<<"USR", "1", "MD5", "a@x">>, <<"USR", "2", "MD5", "a@x", "dummy_hash">>,
          <<"USR", "2", "MD5", "a@x", Digest("a@x", "N1")>>}

(* the count after `parts` was processed on connection c *)
Counted(c, parts) ==
    [attempts EXCEPT ![c] = IF Phase2(parts) /\ ~HashMatches(c, parts)
                            THEN @ + 1 ELSE @]

a_attempt(c, parts) ==
    /\ a_open(c) /\ Dispatch(parts) = "USR"
    /\ attempts[c] < MaxAttempts
    /\ handle_usr(c, parts)
    /\ last' = Event("cmd", c, parts)
    /\ attempts' = Counted(c, parts)
    /\ UNCHANGED <<server, pre, tc, threads, thrVars, frameVars>>

t_attempt(id, parts) ==
    /\ t_open(id) /\ TDispatch(parts) = "USR"
    /\ attempts[id] < MaxAttempts
    /\ handle_usr_command(id, parts)
    /\ last' = Event("cmd", id, parts)
    /\ attempts' = Counted(id, parts)
    /\ UNCHANGED <<server, pre, tc, threads, asyncVars, client_counter, frameVars>>

AuthNext ==
    \/ Drain
    \/ a_accept(1)
    \/ a_eof(1)
    \/ \E parts \in AuthCmds : a_attempt(1, parts)
    \/ client_counter = 1 /\ t_accept
    \/ t_eof(1)
    \/ \E parts \in AuthCmds : t_attempt(1, parts)

AuthSpec == Init /\ [][AuthNext]_vars

(* C24 (original statement): after a phase-2 USR whose hash does not match
   the server replies 911 t and the Session stays in CHALLENGED and
   unauthenticated; a connection may make up to 3 failed attempts and the
   4th failed attempt closes the connection. *)
C24_RetryLimit ==
    [][\A c \in Conns :
         (last'.ev = "cmd" /\ last'.conn = c /\ Idle
            /\ Phase2(last'.parts) /\ ~HashMatches(c, last'.parts)) =>
             /\ IsLine(wrote', c, <<"911", last'.parts[2]>>)
             /\ ~AuthenticatedConn(h', tclients', c)
             /\ attempts'[c] <= 3 => ~ConnClosed(h', tclients', c)
             /\ attempts'[c] >= 4 => ConnClosed(h', tclients', c)]_vars


---------------------------------------------------------------------------
(* The challenge *)

(* `parts` is a phase-1 USR: USR t I identity, or USR t MD5 identity *)
Phase1(parts) ==
    /\ Len(parts) = 4 /\ VerbOf(parts) = "USR"
    /\ parts[3] = (IF server = "async" THEN "I" ELSE "MD5")

(* the nonce held on the Session of connection c, None if none: the async
   handler has no field for it, the threaded server keeps
   client_info['challenge'] *)
StoredNonce(tcl, c) ==
    IF server = "threaded" /\ c \in DOMAIN tcl THEN tcl[c].challenge ELSE None

(* line i of w is the challenge USR t .. S nonce sent to c *)
IsChallenge(w, c, t, n) ==
    IsLine(w, c, IF server = "async" THEN <<"USR", t, "S", n>>
                 ELSE <<"USR", t, "MD5", "S", n>>)

(* C25 (original statement): on a phase-1 USR naming an identity that is
   not in the user store the server replies 911 t, issues no challenge and
   the Session does not enter CHALLENGED; only for a known identity is a
   nonce generated, stored on the Session and returned in
   USR t .. S nonce. *)
C25_ChallengeOnlyForKnown ==
    [][\A c \in Conns :
         (last'.ev = "cmd" /\ last'.conn = c /\ Idle /\ Phase1(last'.parts)) =>
            LET t == last'.parts[2]
            IN IF last'.parts[4] \in Registered
               THEN \E n \in Nonces :
                      /\ IsChallenge(wrote', c, t, n)
                      /\ StoredNonce(tclients', c) = n
               ELSE /\ wrote' = <<Wr(c, <<"911", t>>)>>
                    /\ StoredNonce(tclients', c) = StoredNonce(tclients, c)]_vars


---------------------------------------------------------------------------
(* Invariants of the contact store under ADD and REM *)

(* B is on A's FL if and only if A is on B's RL, for all users A and B *)
ReverseListsAgree(s) ==
    \A A \in Emails, B \in Emails :
        HasEntry(s, <<A, "FL", B>>) <=> HasEntry(s, <<B, "RL", A>>)

(* C26 (original statement): after any sequence of ADD and REM commands by
   authenticated Sessions, B is on A's FL if and only if A is on B's RL:
   no ADD and no REM takes a store where the lists agree to one where
   they do not. *)
C26_ForwardReverseSymmetry ==
    [][ReverseListsAgree(contacts) => ReverseListsAgree(contacts')]_vars

(* no (owner, list, peer) has two rows in table s *)
UniqueEntries(s) ==
    \A i, j \in 1..Len(s) :
        i < j => <<s[i].owner, s[i].list, s[i].peer>>
                   # <<s[j].owner, s[j].list, s[j].peer>>

(* C27 (original statement): after any sequence of ADD and REM commands
   the contact store holds at most one entry for each (owner, peer, list)
   triple, and adding a triple that already exists is a duplicate that
   leaves the store unchanged. *)
C27_UniqueTriples ==
    [][UniqueEntries(contacts) =>
         /\ UniqueEntries(contacts')
         /\ (/\ last'.ev = "cmd" /\ Idle
             /\ Len(last'.parts) >= 5 /\ VerbOf(last'.parts) = "ADD"
             /\ HasEntry(contacts, <<IdentityOf(h, tclients, last'.conn),
                                     last'.parts[3], last'.parts[4]>>))
               => contacts' = contacts]_vars


---------------------------------------------------------------------------
(* The test client never blocks *)

(* the step is a server turn on a command of the client *)
Turned == Len(tc'.inflight) < Len(tc.inflight)

(* C28: a client that sends VER, CVR, the phase-1 USR, the phase-2 USR and
   then SYN and CHG, reading one response line after each command, never
   blocks: whenever it waits in read_response a line eventually reaches
   it, every command it sent elicits at least one line on the connection,
   and for a registered user the phase-2 USR is answered USR t OK. *)
C28_ClientNeverBlocks ==
    /\ tc.waiting ~> ~tc.waiting
    /\ [][Turned =>
            /\ LinesTo(1, wrote') # <<>>
            /\ (tc.pc = 4 /\ tc.who \in Registered) =>
                  UsrOkFor(wrote', 1, tc.who)]_vars

(* the client of a registered user has read a line after its CHG, the last
   command of the script, and is authenticated *)
C28_Witness ==
    /\ tc.pc = ScriptLen /\ ~tc.waiting /\ tc.inflight = <<>>
    /\ tc.who \in Registered
    /\ AuthenticatedConn(h, tclients, 1)
    /\ LastVerb = "CHG"


---------------------------------------------------------------------------
(* C29: the negotiated protocol version of a Session is assigned once, by
   the first VER handled on the connection, and never changes afterwards:
   a command handled on a connection whose version is unset sets it only if
   it is a VER, and a command handled on a connection whose version is set
   (a later VER included) leaves it as it was. *)
C29_VersionAssignedOnce ==
    [][\A c \in Conns :
         (last'.ev = "cmd" /\ last'.conn = c /\ Idle) =>
            IF VersionOf(c) = None
            THEN VersionOf(c)' # None => VerbOf(last'.parts) = "VER"
            ELSE VersionOf(c)' = VersionOf(c)]_vars


---------------------------------------------------------------------------
(* C30: the challenge nonce is held on the Session only from the phase-1
   reply to the next phase-2 USR: once a phase-2 USR has been evaluated the
   Session holds no nonce (whatever the outcome), and a phase-2 USR handled
   while the Session holds no nonce does not authenticate it: no USR t OK is
   written and the Session does not become authenticated. *)
C30_NonceOneShot ==
    [][\A c \in Conns :
         (last'.ev = "cmd" /\ last'.conn = c /\ Idle /\ Phase2(last'.parts)) =>
            /\ StoredNonce(tclients', c) = None
            /\ StoredNonce(tclients, c) = None =>
                  /\ \A e \in Emails : ~UsrOkFor(wrote', c, e)
                  /\ AuthenticatedConn(h', tclients', c)
                        => AuthenticatedConn(h, tclients, c)]_vars


---------------------------------------------------------------------------
(* After the end of a connection *)

(* connection c has closed and its cleanup has run: the async handler's
   finally block ran disconnect_client and closed the writer; the threaded
   handle_client ran cleanup_client in the step just taken *)
CleanedUp(c) ==
    IF server = "async" THEN h[c].st = "closed"
    ELSE last.conn = c /\ last.ev \in {"eof", "cleanup"}

(* C38 (original statement): once a connection has closed and its cleanup
   has run, the Registry contains no entry whose writer is that connection,
   whatever the connection did before closing. *)
C38_NoEntryAfterCleanup ==
    \A c \in Conns :
       CleanedUp(c) => /\ EntriesOf(clients, c) = {}
                       /\ c \notin DOMAIN tclients


---------------------------------------------------------------------------
(* The frame of disconnect_client *)

(* the two maps of the ClientManager agree: email_to_client[e] = id exactly
   when clients[id] exists with email e *)
MapsConsistent(cl, etc) ==
    \A e \in Emails, id \in 1..MaxClientId :
       (e \in DOMAIN etc /\ etc[e] = id) <=> (id \in DOMAIN cl /\ cl[id].email = e)

(* get_client_by_email over the maps (cl, etc) returns entry i *)
LookupReturns(cl, etc, i) ==
    /\ cl[i].email \in DOMAIN etc
    /\ etc[cl[i].email] = i

(* C39 (original statement): disconnect_client(writer) removes only the
   Registry entries of that writer: the client entry of every other
   registered Session and the email->client lookup for its identity are
   unchanged, the two maps stay mutually consistent, and
   get_client_by_email still returns every remaining Session that it
   returned before. *)
C39_DisconnectFrame ==
    [][\A c \in Conns :
         (server = "async" /\ Removes(c)') =>
            /\ \A i \in DOMAIN clients \ EntriesOf(clients, c) :
                  /\ i \in DOMAIN clients' /\ clients'[i] = clients[i]
                  /\ clients[i].email \in DOMAIN email_to_client =>
                        /\ clients[i].email \in DOMAIN email_to_client'
                        /\ email_to_client'[clients[i].email]
                              = email_to_client[clients[i].email]
                  /\ LookupReturns(clients, email_to_client, i) =>
                        LookupReturns(clients', email_to_client', i)
            /\ MapsConsistent(clients, email_to_client) =>
                  MapsConsistent(clients', email_to_client')]_vars


---------------------------------------------------------------------------
(* Presence in the Registry *)

(* the presence the ClientManager reports for identity e, looked up by
   identity as get_client_by_email does; None if it returns no entry *)
ReportedPresence(cl, etc, e) ==
    IF e \in DOMAIN etc /\ etc[e] \in DOMAIN cl THEN cl[etc[e]].status ELSE None

(* the last step processed a CHG carrying a state on the authenticated
   Session of connection c, whose client entry is in the Registry *)
ChgProcessed(c) ==
    /\ last'.ev = "cmd" /\ last'.conn = c /\ Idle
    /\ Dispatch(last'.parts) = "CHG" /\ Len(last'.parts) >= 3
    /\ h[c].authenticated /\ h[c].client_id \in DOMAIN clients

(* C33 (original statement): after a CHG has been processed for an
   identity (the identity of the Session's client entry), the presence the
   Registry reports for that identity, looked up by identity, is the state
   that CHG carried. *)
C33_LookupReportsLastChg ==
    [][\A c \in Conns :
         (server = "async" /\ ChgProcessed(c)) =>
            ReportedPresence(clients', email_to_client',
                             clients[h[c].client_id].email)
               = last'.parts[3]]_vars


---------------------------------------------------------------------------
(* the presence states a connected Session may have *)
ValidPresence == {"NLN", "BSY", "IDL", "BRB", "AWY", "PHN", "LUN", "HDN"}

(* C34 (original statement): in every reachable state the presence recorded
   for a connected Session is one of the eight states; FLN, or a token
   outside the set carried by a CHG, is never stored for a connected
   Session. *)
C34_PresenceTokenValid ==
    /\ \A i \in DOMAIN clients :
          h[clients[i].writer].st = "open" => clients[i].status \in ValidPresence
    /\ \A i \in DOMAIN tclients :
          tclients[i].socket = "open" => tclients[i].status \in ValidPresence


---------------------------------------------------------------------------
(* The identity of an authenticated Session *)

(* the identity the handlers of connection c pass to the store (SYN, LST,
   ADD, REM) and to the presence broadcast: self.email of the async handler,
   client_info['email'] of the threaded server *)
StoreIdentity(hh, tcl, c) ==
    IF server = "async" THEN hh[c].email
    ELSE IF c \in DOMAIN tcl THEN tcl[c].email ELSE None

(* C36 (original statement): for an authenticated Session the identity used
   for its store operations and presence broadcasts is the identity under
   which it was admitted; a command that is not a new successful
   authentication (no USR t OK is written), such as a further phase-1 USR
   naming another identity, does not change it. *)
C36_IdentityFixed ==
    [][\A c \in Conns :
         (/\ last'.ev = "cmd" /\ last'.conn = c /\ Idle
          /\ AuthenticatedConn(h, tclients, c)
          /\ AuthenticatedConn(h', tclients', c)
          /\ \A e \in Emails : ~UsrOkFor(wrote', c, e)) =>
            StoreIdentity(h', tclients', c) = StoreIdentity(h, tclients, c)]_vars


---------------------------------------------------------------------------
(* The store and connections that have not authenticated *)

(* line i of w gives a row of the contact store away *)
DisclosesContact(w) ==
    \E i \in 1..Len(w) : Len(w[i].line) >= 1 /\ w[i].line[1] = "LST"

(* C37 (original statement): ADD, REM and LST from a connection that has
   not completed authentication (has not received USR t OK) leave the
   contact store unchanged and disclose no contact. *)
C37_StoreOnlyAfterAuth ==
    [][\A c \in Conns :
         (/\ last'.ev = "cmd" /\ last'.conn = c /\ Idle
          /\ VerbOf(last'.parts) \in {"ADD", "REM", "LST"}
          /\ ~AuthenticatedConn(h, tclients, c)) =>
            /\ contacts' = contacts
            /\ ~DisclosesContact(wrote')]_vars


---------------------------------------------------------------------------
(* C35 (original statement): if a store operation fails while the server is
   serving transaction t, the client receives the error line 500 t and no
   success reply for t: the lines written are that one line. *)
C35_StoreFailureIs500 ==
    [][\A c \in Conns :
         (last'.ev = "fail" /\ last'.conn = c /\ Idle) =>
            wrote' = <<Wr(c, <<"500", last'.parts[2]>>)>>]_vars


---------------------------------------------------------------------------
(* Fan-out and failing writes *)

(* the last step is the threaded server's CHG handler changing the presence
   of the authenticated Session on connection c and fanning it out *)
FansOut(c) ==
    /\ server = "threaded"
    /\ last'.ev = "cmd" /\ last'.conn = c /\ Idle
    /\ VerbOf(last'.parts) = "CHG" /\ Len(last'.parts) >= 3
    /\ AuthenticatedConn(h, tclients, c)

(* a presence line was written to connection o *)
GotPresence(w, o) ==
    \E i \in 1..Len(w) : w[i].to = o /\ Len(w[i].line) >= 1 /\ w[i].line[1] = "NLN"

(* C32 (original statement): during presence fan-out a failed write to one
   peer (its socket is closed) does not stop delivery to the remaining
   peers, and the peer Session whose write failed is removed from the
   Registry. *)
C32_FailedPeerRemoved ==
    [][\A c \in Conns :
         FansOut(c) =>
            \A o \in DOMAIN tclients \ {c} :
               tclients[o].authenticated =>
                  IF tclients[o].socket = "open"
                  THEN GotPresence(wrote', o)
                  ELSE o \notin DOMAIN tclients']_vars


---------------------------------------------------------------------------
(* Threads and sockets *)

(* the threads that are inside send() on the socket of connection k *)
WritersOn(k) ==
    {t \in Threads : threads[t].pc \in {"reply", "peer", "error"} /\ threads[t].to = k}

(* C31 (original statement): at no time do two tasks or threads write to
   the same connection's socket concurrently; every line for a Session, its
   own reply or a line fanned out by another Session's handler, goes through
   one writer. *)
C31_OneWriterPerSocket ==
    \A k \in Threads : Cardinality(WritersOn(k)) <= 1

(* the broadcast of thread c ends in this step: its loop is exhausted, or
   the handler is left after the error line *)
BroadcastEnds(c) ==
    /\ threads[c].pc \in {"iter", "error"}
    /\ threads'[c].pc = "idle"

(* C40 (original statement): in the threaded server a presence broadcast
   that iterates the shared clients table completes and reaches every other
   authenticated client that stays connected throughout (in the table when
   the broadcast starts and when it ends), under every interleaving with
   threads that insert a connection or clean one up; the sender of the CHG
   receives only its CHG reply and no error line. *)
C40_BroadcastComplete ==
    [][/\ \A c \in Threads :
             BroadcastEnds(c) =>
                \A o \in (threads[c].keys \cap DOMAIN tclients') \ {c} :
                   (tclients'[o].authenticated /\ tclients'[o].socket = "open")
                      => o \in threads'[c].reached
       /\ \A i \in 1..Len(wrote') : wrote'[i].line # <<"911">>]_vars

=============================================================================
